---------------------------- MODULE Spec2Model ----------------------------
(***************************************************************************)
(* Verification model of the CAMARA release-management validators.         *)
(*                                                                         *)
(*   Part A  MetadataValidator.validate() (validate-release-plan.py), the  *)
(*           release-plan / release-metadata validator exercised by        *)
(*           test_validate_release_plan.py.                                *)
(*   Part B  CAMARAAPIValidator (api_review_validator_v0_6.py): the API    *)
(*           type classifier and the per-document validation.              *)
(*   Part C  The multi-document side of api_review_validator_v0_6.py: the  *)
(*           project consistency check, the test alignment check, the run  *)
(*           of main() over all documents of a repository, and the summary *)
(*           generate_report writes.                                       *)
(*                                                                         *)
(* Text is modelled as a sequence of chunks (a chunk is a fixed piece of   *)
(* text), so that substring, suffix and lower-casing are computed and not  *)
(* assumed.                                                                *)
(***************************************************************************)
EXTENDS Integers, Sequences, FiniteSets, TLC

VARIABLES
    mdoc,       \* Part A: the metadata file the validator was constructed on
    mcfg,       \* Part A: constructor arguments (schema_file, strict_phase1, check_files)
    errors,     \* Part A: MetadataValidator.errors
    warnings,   \* Part A: MetadataValidator.warnings
    mresult,    \* Part A: what the last validate() returned: "True", "False" ("none" before)
    phases,     \* Part A: phases the last validate() went through, in order
    calls,      \* Part A: number of validate() calls made on the instance
    afile,      \* Part B: the API file handed to the validator (content and shape)
    cls,        \* Part B: outcome of _determine_api_type on the parsed file ("none" before)
    ares,       \* Part B: the ValidationResult of validate_api_file (state "new" before)
    api_files,  \* Part C: the API documents of the repository, in discovery order
    test_dir,   \* Part C: code/Test_definitions: whether it exists, and its files
    results,    \* Part C: main's `results` list
    consistency_result, \* Part C: main's consistency_result (kind "none" is None)
    test_results,       \* Part C: main's `test_results` list
    pc,         \* Part C: where main() is ("api": the validator is called directly)
    idx,        \* Part C: documents the current loop of main() has gone through
    argc,       \* Part C: len(sys.argv) of the run
    summary,    \* Part C: what was written to summary.md (kind "none": nothing)
    exit_status \* Part C: <<>> while main() runs, <<n>> after sys.exit(n)

metaVars == <<mdoc, mcfg, errors, warnings, mresult, phases, calls>>
apiVars == <<afile, cls, ares>>
runVars ==
    <<api_files, test_dir, results, consistency_result, test_results, pc, idx,
      argc, summary, exit_status>>
vars ==
    <<mdoc, mcfg, errors, warnings, mresult, phases, calls, afile, cls, ares,
      api_files, test_dir, results, consistency_result, test_results, pc, idx,
      argc, summary, exit_status>>

\* Parts A and B run no main(): the variables of Part C stay put
NoRun ==
    /\ api_files = <<>> /\ test_dir = "none" /\ results = <<>>
    /\ consistency_result = "none" /\ test_results = <<>>
    /\ pc = "none" /\ idx = 0
    /\ argc = 0 /\ summary = "none" /\ exit_status = <<>>

-----------------------------------------------------------------------------
(* Bounds *)

MaxApis == 2        \* longest `apis` list of a metadata document
MaxCalls == 2       \* validate() calls on one MetadataValidator instance
MaxChunks == 3      \* longest text (title, path, schema name), in chunks
MaxEntries == 2     \* most entries of a `paths` or `schemas` mapping
MaxDocs == 2        \* most API documents of a repository
MaxTests == 2       \* most files of the test directory
MaxStampDocs == 3   \* most API documents compared for license and version stamp
MaxCritical == 22   \* most Critical issues handed to generate_report
MaxMedium == 27     \* most Medium issues handed to generate_report

-----------------------------------------------------------------------------
(* Generic helpers *)

RECURSIVE SeqsUpTo(_, _)
SeqsUpTo(S, n) ==
    IF n = 0 THEN {<<>>}
    ELSE LET shorter == SeqsUpTo(S, n - 1)
         IN  shorter \cup {Append(s, x) : s \in {t \in shorter : Len(t) = n - 1}, x \in S}

RECURSIVE Flatten(_)
Flatten(ss) == IF ss = <<>> THEN <<>> ELSE Head(ss) \o Flatten(Tail(ss))

Range(s) == {s[i] : i \in DOMAIN s}

-----------------------------------------------------------------------------
(* Part A: findings of the metadata validator.  An entry of `errors` is a  *)
(* Critical finding, an entry of `warnings` a non-blocking one; `cites` is *)
(* the set of words the message text contains.                             *)

Err(kind, cites) == [sev |-> "Critical", kind |-> kind, cites |-> cites]
Warn(kind, cites) == [sev |-> "Medium", kind |-> kind, cites |-> cites]

ReleaseTypes ==
    {"pre-release-alpha", "pre-release-rc", "public-release", "maintenance-release", "none"}
ApiStatuses == {"draft", "alpha", "rc", "public"}

\* Release-type / API-status compatibility table
AllowedStatuses(release_type) ==
    CASE release_type = "pre-release-alpha"   -> {"alpha", "rc", "public"}
      [] release_type = "pre-release-rc"      -> {"rc", "public"}
      [] release_type = "public-release"      -> {"public"}
      [] release_type = "maintenance-release" -> {"public"}
      [] release_type = "none"                -> {"draft", "alpha", "rc", "public"}

\* (mutant) a document carrying both field sets is taken for a release plan
detect_schema_type_first_shape_wins(doc) ==
    IF ~doc.hasRepository THEN "unknown"
    ELSE IF doc.planFields THEN "release-plan"
    ELSE IF doc.metaFields THEN "release-metadata"
    ELSE "unknown"

\* Type Classifier for metadata documents: "release-plan", "release-metadata"
\* or "unknown" (no `repository`, or neither / both field sets recognised)
detect_schema_type(doc) ==
    IF ~doc.hasRepository THEN "unknown"
    ELSE IF doc.planFields /\ ~doc.metaFields THEN "release-plan"
    ELSE IF doc.metaFields /\ ~doc.planFields THEN "release-metadata"
    ELSE "unknown"

\* Track consistency: release_track "meta-release" needs a meta_release field
check_track_errors(doc) ==
    IF doc.release_track = "meta-release" /\ ~doc.hasMetaRelease
    THEN <<Err("TrackConsistency", {"meta_release"})>>
    ELSE <<>>

\* Advisory: an independent track that still carries a meta_release field
check_track_warnings(doc) ==
    IF doc.release_track = "independent" /\ doc.hasMetaRelease
    THEN <<Warn("TrackConsistency", {"independent"})>>
    ELSE <<>>

\* (mutant) every release type other than "none" rejects only draft
check_api_status_draft_only(release_type, api) ==
    IF release_type = "none" \/ api.status # "draft"
    THEN <<>>
    ELSE <<Err("ReleaseType", {api.status, api.name})>>

\* Release-type / API-status compatibility of one API entry
check_api_status(release_type, api) ==
    IF api.status \in AllowedStatuses(release_type)
    THEN <<>>
    ELSE <<Err("ReleaseType", {api.status, api.name})>>

\* ... of every listed API, independently, in list order
check_release_type_consistency(doc) ==
    Flatten([i \in 1..Len(doc.apis) |-> check_api_status(doc.release_type, doc.apis[i])])

\* Strict-phase-1 rule for one field
check_null_field(field, value) ==
    IF value # "null" THEN <<Err("StrictPhase1", {field, "null"})>> ELSE <<>>

\* (mutant) strict mode forgets src_commit_sha
check_strict_phase1_date_only(doc, cfg) ==
    IF cfg.strict_phase1
    THEN check_null_field("release_date", doc.release_date)
    ELSE <<>>

\* Strict-phase-1 mode: release_date and src_commit_sha must be null
check_strict_phase1(doc, cfg) ==
    IF cfg.strict_phase1
    THEN check_null_field("release_date", doc.release_date)
         \o check_null_field("src_commit_sha", doc.src_commit_sha)
    ELSE <<>>

\* The semantic-rule phase: Critical findings, in rule order
check_semantic_rules(doc, cfg) ==
    check_track_errors(doc) \o check_release_type_consistency(doc)
    \o check_strict_phase1(doc, cfg)

\* (mutant) no exemption for draft APIs
check_api_file_no_exemption(api) ==
    IF ~api.fileExists
    THEN <<Warn("FileExistence", {api.name})>>
    ELSE <<>>

\* File-existence rule for one API entry (draft APIs are exempt)
check_api_file(api) ==
    IF api.status # "draft" /\ ~api.fileExists
    THEN <<Warn("FileExistence", {api.name})>>
    ELSE <<>>

\* Optional file-existence check: non-blocking findings only
check_file_existence(doc, cfg) ==
    IF cfg.check_files
    THEN Flatten([i \in 1..Len(doc.apis) |-> check_api_file(doc.apis[i])])
    ELSE <<>>

\* Schema Validator: one Critical finding per nonconformity the schema reports
validate_schema(doc) ==
    [i \in 1..Len(doc.nonconformities) |-> Err("SchemaViolation", {doc.nonconformities[i]})]

\* Pipeline-halting failure of the load / classify / locate-schema phases:
\* the finding and the phases gone through (halts is FALSE when the pipeline
\* goes on)
halting_failure(doc, cfg) ==
    IF doc.file = "missing"
        THEN [halts |-> TRUE, finding |-> Err("NotFound", {"not found"}), phases |-> <<"load">>]
    ELSE IF doc.file = "malformed"
        THEN [halts |-> TRUE, finding |-> Err("ParseError", {"yaml"}), phases |-> <<"load">>]
    ELSE IF detect_schema_type(doc) = "unknown"
        THEN [halts |-> TRUE, finding |-> Err("UnknownType", {"cannot determine"}),
              phases |-> <<"load", "classify">>]
    ELSE IF cfg.schema_file = "auto" /\ cfg.lookup = "none"
        THEN [halts |-> TRUE, finding |-> Err("SchemaNotFound", {"cannot find schema"}),
              phases |-> <<"load", "classify", "locate_schema">>]
    ELSE IF cfg.schema = "missing"
        THEN [halts |-> TRUE, finding |-> Err("SchemaNotFound", {"not found"}),
              phases |-> <<"load", "classify", "locate_schema">>]
    ELSE IF cfg.schema = "malformed"
        THEN [halts |-> TRUE, finding |-> Err("SchemaParseError", {"yaml"}),
              phases |-> <<"load", "classify", "locate_schema">>]
    ELSE [halts |-> FALSE, finding |-> Err("None", {}), phases |-> <<>>]

\* (mutant) warnings-only bookkeeping: a run that reached the end succeeded
validate_result_always(errs) == TRUE

\* What validate() returns
validate_result(errs) == Len(errs) = 0

\* (mutant) a schema nonconformity ends the run before the semantic rules
validate_schema_halts(doc, cfg, errs, warns) ==
    LET halt == halting_failure(doc, cfg) IN
    IF halt.halts
    THEN [errors |-> Append(errs, halt.finding), warnings |-> warns,
          result |-> FALSE, phases |-> halt.phases]
    ELSE IF validate_schema(doc) # <<>>
    THEN [errors |-> errs \o validate_schema(doc), warnings |-> warns,
          result |-> FALSE,
          phases |-> <<"load", "classify", "locate_schema", "schema_validation">>]
    ELSE LET errs2 == errs \o check_semantic_rules(doc, cfg)
             warns2 == warns \o check_track_warnings(doc) \o check_file_existence(doc, cfg)
         IN  [errors |-> errs2, warnings |-> warns2,
              result |-> validate_result(errs2),
              phases |-> <<"load", "classify", "locate_schema", "schema_validation",
                           "semantic_rules">>
                         \o (IF cfg.check_files THEN <<"file_existence">> ELSE <<>>)]

\* (mutant) findings already recorded are dropped as duplicates and the result
\* reflects only the findings new in this call
validate_dedup(doc, cfg, errs, warns) ==
    LET halt == halting_failure(doc, cfg)
        found == IF halt.halts THEN <<halt.finding>>
                 ELSE validate_schema(doc) \o check_semantic_rules(doc, cfg)
        fresh == SelectSeq(found, LAMBDA f : f \notin Range(errs))
    IN  [errors |-> errs \o fresh, warnings |-> warns,
         result |-> Len(fresh) = 0,
         phases |-> IF halt.halts THEN halt.phases
                    ELSE <<"load", "classify", "locate_schema", "schema_validation",
                           "semantic_rules">>]

\* MetadataValidator.validate(): the instance after the call, given the
\* instance's errors and warnings before it
validate(doc, cfg, errs, warns) ==
    LET halt == halting_failure(doc, cfg) IN
    IF halt.halts
    THEN [errors |-> Append(errs, halt.finding), warnings |-> warns,
          result |-> FALSE, phases |-> halt.phases]
    ELSE LET errs2 == errs \o validate_schema(doc) \o check_semantic_rules(doc, cfg)
             warns2 == warns \o check_track_warnings(doc) \o check_file_existence(doc, cfg)
         IN  [errors |-> errs2, warnings |-> warns2,
              result |-> validate_result(errs2),
              phases |-> <<"load", "classify", "locate_schema", "schema_validation",
                           "semantic_rules">>
                         \o (IF cfg.check_files THEN <<"file_existence">> ELSE <<>>)]

-----------------------------------------------------------------------------
(* Part A: inputs *)

ApiEntries(names) == [name : names, status : ApiStatuses, fileExists : BOOLEAN]

\* `apis` lists of at most n entries; the i-th entry is named "api<i>"
RECURSIVE ApiLists(_)
ApiLists(n) ==
    IF n = 0 THEN {<<>>}
    ELSE LET shorter == ApiLists(n - 1)
             name == CASE n = 1 -> "api1" [] n = 2 -> "api2" [] n = 3 -> "api3"
                       [] OTHER -> "apiN"
         IN  shorter \cup {Append(s, e) : s \in {t \in shorter : Len(t) = n - 1},
                                          e \in ApiEntries({name})}

NonconformityLists == {<<>>, <<"enum">>, <<"enum", "required">>}

DefaultDoc ==
    [file |-> "ok", hasRepository |-> TRUE, planFields |-> TRUE, metaFields |-> FALSE,
     release_track |-> "independent", hasMetaRelease |-> FALSE, release_type |-> "none",
     apis |-> <<>>, release_date |-> "null", src_commit_sha |-> "null",
     nonconformities |-> <<>>]

DefaultCfg ==
    [schema_file |-> "auto", lookup |-> "found", schema |-> "ok",
     strict_phase1 |-> FALSE, check_files |-> FALSE]

\* Documents and schema configurations that exercise loading, classification
\* and schema location
LoadInput(doc, cfg) ==
    \E f \in {"ok", "missing", "malformed"}, r \in BOOLEAN, p \in BOOLEAN, m \in BOOLEAN,
       n \in {<<>>, <<"enum">>},
       sf \in {"auto", "explicit"}, l \in {"found", "none"},
       s \in {"ok", "missing", "malformed"}, c \in BOOLEAN :
        /\ doc = [DefaultDoc EXCEPT !.file = f, !.hasRepository = r, !.planFields = p,
                                    !.metaFields = m, !.nonconformities = n]
        /\ cfg = [DefaultCfg EXCEPT !.schema_file = sf, !.lookup = l, !.schema = s,
                                    !.check_files = c]

\* Loadable, classifiable documents: every combination of the repository-level
\* fields and modes, with at most one API entry
FieldInput(doc, cfg) ==
    \E p \in BOOLEAN, t \in {"independent", "meta-release"}, h \in BOOLEAN,
       rt \in ReleaseTypes, a \in ApiLists(1), d \in {"null", "2026-01-15"},
       s \in {"null", "7f3a9b2c"}, n \in NonconformityLists,
       sp \in BOOLEAN, c \in BOOLEAN :
        /\ doc = [DefaultDoc EXCEPT !.planFields = p, !.metaFields = ~p,
                                    !.release_track = t, !.hasMetaRelease = h,
                                    !.release_type = rt, !.apis = a, !.release_date = d,
                                    !.src_commit_sha = s, !.nonconformities = n]
        /\ cfg = [DefaultCfg EXCEPT !.strict_phase1 = sp, !.check_files = c]

\* Documents with every `apis` list up to MaxApis entries
ApiListInput(doc, cfg) ==
    \E rt \in ReleaseTypes, a \in ApiLists(MaxApis), n \in {<<>>, <<"enum">>},
       c \in BOOLEAN :
        /\ doc = [DefaultDoc EXCEPT !.release_type = rt, !.apis = a, !.nonconformities = n]
        /\ cfg = [DefaultCfg EXCEPT !.check_files = c]

-----------------------------------------------------------------------------
(* Part A: the state machine of one MetadataValidator instance *)

MetaInit ==
    /\ \/ LoadInput(mdoc, mcfg)
       \/ FieldInput(mdoc, mcfg)
       \/ ApiListInput(mdoc, mcfg)
    /\ errors = <<>>
    /\ warnings = <<>>
    /\ mresult = "none"
    /\ phases = <<>>
    /\ calls = 0
    /\ afile = "none" /\ cls = "none" /\ ares = "none"
    /\ NoRun

Validate ==
    /\ calls < MaxCalls
    /\ LET after == validate(mdoc, mcfg, errors, warnings) IN
        /\ errors' = after.errors
        /\ warnings' = after.warnings
        /\ mresult' = (IF after.result THEN "True" ELSE "False")
        /\ phases' = after.phases
    /\ calls' = calls + 1
    /\ UNCHANGED <<mdoc, mcfg>>
    /\ UNCHANGED apiVars
    /\ UNCHANGED runVars

MetaNext == Validate

SpecMeta == MetaInit /\ [][MetaNext]_vars

-----------------------------------------------------------------------------
(* Part A: properties of MetadataValidator.validate() *)

Count(seq, Test(_)) == Len(SelectSeq(seq, Test))

Findings == errors \o warnings

\* The document loads, classifies and has a usable schema (stated on the inputs)
Loads == mdoc.file = "ok"
Classifies == mdoc.hasRepository /\ (mdoc.planFields # mdoc.metaFields)
SchemaNotLocated == mcfg.schema_file = "auto" /\ mcfg.lookup = "none"
SchemaUsable == ~SchemaNotLocated /\ mcfg.schema = "ok"
Halting == ~Loads \/ ~Classifies \/ ~SchemaUsable
LaterPhases == {"schema_validation", "semantic_rules", "file_existence"}

\* C1: validate() returns True if and only if the findings hold no Critical
\* entry (the errors list is empty); warnings never make it fail.
C1_SuccessIffNoCritical ==
    mresult # "none" =>
        /\ (mresult = "True") <=> (Count(Findings, LAMBDA f : f.sev = "Critical") = 0)
        /\ (mresult = "True") <=> (errors = <<>>)

C1_Witness == mresult = "True" /\ warnings # <<>> /\ errors = <<>>

\* The compatibility table as the specification tabulates it
C2_Table ==
    {<<"pre-release-alpha", "alpha">>, <<"pre-release-alpha", "rc">>,
     <<"pre-release-alpha", "public">>,
     <<"pre-release-rc", "rc">>, <<"pre-release-rc", "public">>,
     <<"public-release", "public">>,
     <<"maintenance-release", "public">>,
     <<"none", "draft">>, <<"none", "alpha">>, <<"none", "rc">>, <<"none", "public">>}

C2_Cited(api) ==
    Count(errors, LAMBDA f : /\ f.sev = "Critical" /\ f.kind = "ReleaseType"
                             /\ api.name \in f.cites /\ api.status \in f.cites)

\* C2: each listed API is judged on its own against the table: a (release
\* type, status) pair outside the table yields one Critical finding per
\* validate() call citing the status and the API, a pair inside it none.
C2_ReleaseTypeTable ==
    (~Halting /\ calls >= 1) =>
        \A i \in 1..Len(mdoc.apis) :
            C2_Cited(mdoc.apis[i]) =
                (IF <<mdoc.release_type, mdoc.apis[i].status>> \in C2_Table THEN 0 ELSE calls)

C2_Witness ==
    /\ calls = 1 /\ ~Halting /\ Len(mdoc.apis) = 2
    /\ mdoc.release_type = "pre-release-rc"
    /\ mdoc.apis[1].status = "alpha" /\ mdoc.apis[2].status = "rc"
    /\ Len(errors) = 1 /\ errors[1].cites = {"alpha", "api1"}

\* C3: each pipeline-halting failure (NotFound, ParseError, UnknownType,
\* schema not found or unparseable) makes validate() return False with exactly
\* one Critical finding per call, and no later phase runs.
C3_HaltingFailure ==
    (Halting /\ calls >= 1) =>
        /\ mresult = "False"
        /\ Len(errors) = calls
        /\ \A i \in 1..Len(errors) : errors[i].sev = "Critical"
        /\ warnings = <<>>
        /\ Range(phases) \cap LaterPhases = {}
        /\ (mdoc.file = "missing" => "not found" \in errors[Len(errors)].cites)

C3_Witness ==
    /\ calls = 1 /\ Loads /\ mdoc.hasRepository /\ mdoc.planFields /\ mdoc.metaFields
    /\ mdoc.nonconformities # <<>> /\ mcfg.check_files
    /\ mresult = "False" /\ Len(errors) = 1

C4_SemanticViolation ==
    \/ mdoc.release_track = "meta-release" /\ ~mdoc.hasMetaRelease
    \/ \E i \in 1..Len(mdoc.apis) :
          <<mdoc.release_type, mdoc.apis[i].status>> \notin C2_Table

\* C4: once the document has loaded, been classified and had its schema
\* located, the schema-validation phase and then the semantic-rule phase both
\* run; schema findings do not keep semantic findings out of the result.
C4_BothPhasesRun ==
    (~Halting /\ calls >= 1) =>
        /\ Len(phases) >= 5
        /\ phases[4] = "schema_validation" /\ phases[5] = "semantic_rules"
        /\ Count(errors, LAMBDA f : f.kind = "SchemaViolation")
              = calls * Len(mdoc.nonconformities)
        /\ (C4_SemanticViolation =>
              Count(errors, LAMBDA f : f.kind \in {"TrackConsistency", "ReleaseType"}) >= calls)

C4_Witness ==
    /\ calls = 1 /\ ~Halting /\ mdoc.nonconformities # <<>> /\ C4_SemanticViolation
    /\ \E i, j \in 1..Len(errors) :
          i < j /\ errors[i].kind = "SchemaViolation" /\ errors[j].kind = "ReleaseType"

\* C5: across validate() calls on one instance the number of recorded
\* findings never decreases, and every call on a document with a Critical
\* finding returns False, the first as well as each later one.
C5_Accumulates ==
    [][calls' = calls + 1 =>
          /\ Len(errors') >= Len(errors)
          /\ Len(errors') + Len(warnings') >= Len(errors) + Len(warnings)
          /\ (mresult = "False" => mresult' = "False")
          /\ (errors' # <<>> => mresult' = "False")]_vars

C5_Witness == calls = 2 /\ mresult = "False" /\ Len(errors) = 2 /\ ~Halting

C6_Cited(field) ==
    Count(errors, LAMBDA f : /\ f.sev = "Critical"
                             /\ field \in f.cites /\ "null" \in f.cites)

\* C6: with strict_phase1 enabled each of release_date and src_commit_sha
\* that is not null yields one Critical finding naming the field and "null"
\* (so validation fails); null fields, or the mode disabled, add none.
C6_StrictPhase1 ==
    (~Halting /\ calls >= 1) =>
        /\ C6_Cited("release_date") =
              (IF mcfg.strict_phase1 /\ mdoc.release_date # "null" THEN calls ELSE 0)
        /\ C6_Cited("src_commit_sha") =
              (IF mcfg.strict_phase1 /\ mdoc.src_commit_sha # "null" THEN calls ELSE 0)
        /\ (mcfg.strict_phase1
              /\ (mdoc.release_date # "null" \/ mdoc.src_commit_sha # "null"))
            => mresult = "False"

C6_Witness ==
    /\ calls = 1 /\ ~Halting /\ mcfg.strict_phase1
    /\ mdoc.release_date = "null" /\ mdoc.src_commit_sha # "null"
    /\ Len(errors) = 1 /\ errors[1].cites = {"src_commit_sha", "null"}

C7_Warned(api) ==
    Count(warnings, LAMBDA f : f.kind = "FileExistence" /\ api.name \in f.cites)

\* C7: with check_files enabled every non-draft API whose definition file is
\* absent yields a warning naming it and never a Critical finding (the
\* outcome is the one of the same run without the check); a draft API never
\* yields a file-existence warning.
C7_FileExistence ==
    (~Halting /\ calls >= 1 /\ mcfg.check_files) =>
        /\ \A i \in 1..Len(mdoc.apis) :
              C7_Warned(mdoc.apis[i]) =
                  (IF mdoc.apis[i].status # "draft" /\ ~mdoc.apis[i].fileExists
                   THEN calls ELSE 0)
        /\ \A i \in 1..Len(warnings) : warnings[i].sev = "Medium"
        /\ Count(errors, LAMBDA f : f.kind = "FileExistence") = 0
        /\ (mresult = "True")
              = validate(mdoc, [mcfg EXCEPT !.check_files = FALSE], <<>>, <<>>).result

C7_Witness ==
    /\ calls = 1 /\ ~Halting /\ mcfg.check_files /\ Len(mdoc.apis) = 2
    /\ mdoc.apis[1].status = "draft" /\ ~mdoc.apis[1].fileExists
    /\ mdoc.apis[2].status = "public" /\ ~mdoc.apis[2].fileExists
    /\ mresult = "True" /\ Len(warnings) = 1 /\ "api2" \in warnings[1].cites

-----------------------------------------------------------------------------
(* Part B: text.  A text is a sequence of chunks; the chunks below are the *)
(* pieces of text the classifier distinguishes.                            *)

TitleChunks == {"sub", "Sub", "scription", "API"}
PathChunks == {"/", "subscriptions", "x"}
NameChunks == {"CloudEvent", "Sink", "Credential"}

\* str.lower(), chunk by chunk
LowerChunk(c) ==
    CASE c = "Sub" -> "sub"
      [] c = "API" -> "api"
      [] c = "CloudEvent" -> "cloudevent"
      [] c = "Sink" -> "sink"
      [] c = "Credential" -> "credential"
      [] OTHER -> c
Lower(s) == [i \in DOMAIN s |-> LowerChunk(s[i])]

\* `needle in s` on texts
Contains(s, needle) ==
    \E i \in 0..(Len(s) - Len(needle)) : SubSeq(s, i + 1, i + Len(needle)) = needle

\* s.endswith(needle)
EndsWith(s, needle) ==
    /\ Len(s) >= Len(needle)
    /\ SubSeq(s, Len(s) - Len(needle) + 1, Len(s)) = needle

SUBSCRIPTION == <<"sub", "scription">>              \* 'subscription'
SUBSCRIPTIONS_END == <<"/", "subscriptions">>       \* '/subscriptions'
SUBSCRIPTIONS_SEG == <<"/", "subscriptions", "/">>  \* '/subscriptions/'
CLOUD_EVENT == <<"CloudEvent">>                     \* 'CloudEvent'
SINK_CREDENTIAL == <<"Sink", "Credential">>         \* 'SinkCredential'

REGULAR == "Regular API"
IMPLICIT_SUBSCRIPTION == "Implicit Subscription API"
EXPLICIT_SUBSCRIPTION == "Explicit Subscription API"
APIType == {REGULAR, IMPLICIT_SUBSCRIPTION, EXPLICIT_SUBSCRIPTION}

-----------------------------------------------------------------------------
(* Part B: the parsed document.  Every section records its YAML shape:     *)
(*   info        "absent" | "null" | "map"                                 *)
(*   title       [kind: "absent" | "nonstring" | "str", text]              *)
(*   paths       [kind: "absent" | "null" | "map", entries]; an entry is   *)
(*               [key: text, obj: [kind: "null" | "map", ops]] and an op   *)
(*               is "other" (not a mapping), "op" or "op+callbacks"        *)
(*   components  "absent" | "null" | "map"                                 *)
(*   schemas     [kind: "absent" | "null" | "map", entries]; an entry is   *)
(*               [name: text, kind: "map" | "other",                       *)
(*                props: [kind: "absent" | "null" | "map", names]]         *)
(* A raised Python exception is the outcome "raise".                       *)

path_has_subscriptions(path) ==
    EndsWith(path, SUBSCRIPTIONS_END) \/ Contains(path, SUBSCRIPTIONS_SEG)

\* spec.get('info', {}).get('title', '')
info_title(spec) ==
    IF spec.info = "null" THEN [kind |-> "raise", text |-> <<>>]
    ELSE IF spec.info = "absent" \/ spec.title.kind = "absent"
        THEN [kind |-> "str", text |-> <<>>]
    ELSE spec.title

\* the entries of spec.get('paths', {}) / spec.get('components', {}).get('schemas', {})
path_entries(spec) == IF spec.paths.kind = "map" THEN spec.paths.entries ELSE <<>>
schema_entries(spec) ==
    IF spec.components = "map" /\ spec.schemas.kind = "map" THEN spec.schemas.entries ELSE <<>>
schemas_is_none(spec) == spec.components = "map" /\ spec.schemas.kind = "null"

\* `name in schemas`
in_schemas(name, spec) ==
    \E i \in 1..Len(schema_entries(spec)) : schema_entries(spec)[i].name = name

\* the loop over paths.values() looking for an operation with callbacks:
\* "found", "none", or "raise" on a path item that is not a mapping
RECURSIVE callbacks_scan(_)
callbacks_scan(entries) ==
    IF entries = <<>> THEN "none"
    ELSE IF Head(entries).obj.kind = "null" THEN "raise"
    ELSE IF \E j \in 1..Len(Head(entries).obj.ops) : Head(entries).obj.ops[j] = "op+callbacks"
        THEN "found"
    ELSE callbacks_scan(Tail(entries))

\* the loop over schemas.items() looking for a sink / sinkCredential property
RECURSIVE sink_property_scan(_)
sink_property_scan(entries) ==
    IF entries = <<>> THEN "none"
    ELSE IF Head(entries).kind # "map" THEN sink_property_scan(Tail(entries))
    ELSE IF Head(entries).props.kind = "null" THEN "raise"
    ELSE IF Head(entries).props.kind = "map"
            /\ Head(entries).props.names \cap {"sink", "sinkCredential"} # {}
        THEN "found"
    ELSE sink_property_scan(Tail(entries))

\* (mutant) the title is searched as written, without lower-casing
determine_api_type_case_sensitive(spec) ==
    LET title == info_title(spec) IN
    IF title.kind \in {"raise", "nonstring"} THEN "raise"
    ELSE IF spec.components = "null" THEN "raise"
    ELSE IF Contains(title.text, SUBSCRIPTION) THEN EXPLICIT_SUBSCRIPTION
    ELSE IF spec.paths.kind = "null" THEN "raise"
    ELSE IF \E i \in 1..Len(path_entries(spec)) :
                path_has_subscriptions(path_entries(spec)[i].key)
        THEN EXPLICIT_SUBSCRIPTION
    ELSE IF schemas_is_none(spec) THEN "raise"
    ELSE IF in_schemas(CLOUD_EVENT, spec) THEN IMPLICIT_SUBSCRIPTION
    ELSE IF \E i \in 1..Len(schema_entries(spec)) :
                Contains(schema_entries(spec)[i].name, SINK_CREDENTIAL)
        THEN IMPLICIT_SUBSCRIPTION
    ELSE IF callbacks_scan(path_entries(spec)) = "raise" THEN "raise"
    ELSE IF callbacks_scan(path_entries(spec)) = "found" THEN IMPLICIT_SUBSCRIPTION
    ELSE IF sink_property_scan(schema_entries(spec)) = "raise" THEN "raise"
    ELSE IF sink_property_scan(schema_entries(spec)) = "found" THEN IMPLICIT_SUBSCRIPTION
    ELSE REGULAR

\* CAMARAAPIValidator._determine_api_type: the APIType returned, or "raise"
determine_api_type(spec) ==
    LET title == info_title(spec) IN
    IF title.kind \in {"raise", "nonstring"} THEN "raise"
    ELSE IF spec.components = "null" THEN "raise"
    ELSE IF Contains(Lower(title.text), SUBSCRIPTION) THEN EXPLICIT_SUBSCRIPTION
    ELSE IF spec.paths.kind = "null" THEN "raise"
    ELSE IF \E i \in 1..Len(path_entries(spec)) :
                path_has_subscriptions(path_entries(spec)[i].key)
        THEN EXPLICIT_SUBSCRIPTION
    ELSE IF schemas_is_none(spec) THEN "raise"
    ELSE IF in_schemas(CLOUD_EVENT, spec) THEN IMPLICIT_SUBSCRIPTION
    ELSE IF \E i \in 1..Len(schema_entries(spec)) :
                Contains(schema_entries(spec)[i].name, SINK_CREDENTIAL)
        THEN IMPLICIT_SUBSCRIPTION
    ELSE IF callbacks_scan(path_entries(spec)) = "raise" THEN "raise"
    ELSE IF callbacks_scan(path_entries(spec)) = "found" THEN IMPLICIT_SUBSCRIPTION
    ELSE IF sink_property_scan(schema_entries(spec)) = "raise" THEN "raise"
    ELSE IF sink_property_scan(schema_entries(spec)) = "found" THEN IMPLICIT_SUBSCRIPTION
    ELSE REGULAR

-----------------------------------------------------------------------------
(* Part B: validate_api_file.  The file is                                 *)
(*   load   "unopenable" | "malformed" | "parsed"                          *)
(*   root   "empty" (None, {}, [] ...) | "map" | "other" (a non-empty      *)
(*          value that is not a mapping)                                   *)
(* followed by the sections of the document.  What the checks of the       *)
(* battery find is left open: `found` are the findings the always-run      *)
(* checks append, `foundTyped` those of the type-specific sub-checks, and  *)
(* `raisesAt` = k > 0 makes the k-th check of the run raise an unexpected  *)
(* error right after it has recorded its name.                             *)

Issue(severity, category) == [severity |-> severity, category |-> category]

\* ValidationResult(file_path=file_path); manual_checks_needed is recorded as
\* the API type whose list _get_manual_checks_for_type returned ("unset" before)
NewResult ==
    [api_type |-> REGULAR, issues |-> <<>>, checks_performed |-> <<>>,
     manual_checks_needed |-> "unset"]

\* (mutant) the deep filename check is called before the scope naming check
AlwaysRunChecks_filename_before_scopes ==
    <<"OpenAPI version validation", "Info object validation",
      "Servers object validation", "ExternalDocs validation",
      "Security schemes validation", "Error responses validation",
      "X-Correlator validation", "Date-time fields validation",
      "Reserved words validation", "Device schema validation",
      "File naming validation", "Work-in-progress version validation",
      "Updated Generic401 response validation", "Deep filename consistency validation",
      "Scope naming pattern validation">>

\* the checks every loaded document gets, in call order
AlwaysRunChecks ==
    <<"OpenAPI version validation", "Info object validation",
      "Servers object validation", "ExternalDocs validation",
      "Security schemes validation", "Error responses validation",
      "X-Correlator validation", "Date-time fields validation",
      "Reserved words validation", "Device schema validation",
      "File naming validation", "Work-in-progress version validation",
      "Updated Generic401 response validation", "Scope naming pattern validation",
      "Deep filename consistency validation">>

\* the sub-checks _check_explicit_subscription_compliance applies, in call order
ExplicitSubChecks ==
    <<"CloudEvents compliance validation", "Event type naming validation",
      "Subscription lifecycle events validation", "Sink validation",
      "Subscription error codes validation">>

\* A run in progress: the result so far, whether an exception is in flight,
\* and how many checks have recorded their name
StartRun(result) == [result |-> result, raised |-> FALSE, n |-> 0]

\* (mutant) a check that raises is skipped and the run goes on
RunCheck_swallows(run, file, name, fails, findings) ==
    LET recorded == [run.result EXCEPT !.checks_performed = Append(@, name)]
    IN  IF fails \/ file.raisesAt = run.n + 1
        THEN [result |-> recorded, raised |-> FALSE, n |-> run.n + 1]
        ELSE [result |-> [recorded EXCEPT !.issues = @ \o findings],
              raised |-> FALSE, n |-> run.n + 1]

\* One check: it records its name, then either raises where the code does on
\* this document (`fails`), or appends its findings and, when it is the
\* raisesAt-th check of the run, raises an unexpected error after them
RunCheck(run, file, name, fails, findings) ==
    IF run.raised THEN run
    ELSE LET recorded ==
                 [run.result EXCEPT !.checks_performed = Append(@, name)]
         IN  IF fails
             THEN [result |-> recorded, raised |-> TRUE, n |-> run.n + 1]
             ELSE [result |-> [recorded EXCEPT !.issues = @ \o findings],
                   raised |-> (file.raisesAt = run.n + 1), n |-> run.n + 1]

\* Findings appended by the code of a check after its sub-checks have run
AddFindings(run, fails, findings) ==
    IF run.raised THEN run
    ELSE IF fails THEN [run EXCEPT !.raised = TRUE]
    ELSE [run EXCEPT !.result.issues = @ \o findings]

RECURSIVE RunChecks(_, _, _, _)
RunChecks(run, file, names, findings) ==
    IF names = <<>> THEN run
    ELSE RunChecks(RunCheck(run, file, Head(names), FALSE, findings),
                   file, Tail(names), <<>>)

has_subscriptions_path(spec) ==
    \E i \in 1..Len(path_entries(spec)) : path_has_subscriptions(path_entries(spec)[i].key)

\* the enum values of the schemas whose name contains 'EventType' and whose
\* type is 'string' (file.eventTypes), as texts
\* re.match(r'^org\.camaraproject\.[a-z0-9-]+\.v\d+\.[a-z0-9-]+$', event_type):
\* the chunks "api", "x" and the lifecycle event names are lower-case names,
\* ".v0." is a version between dots
LowerNames ==
    {"api", "x", "subscription-started", "subscription-updated", "subscription-ended"}
event_type_matches(event_type) ==
    /\ Len(event_type) = 4
    /\ event_type[1] = "org.camaraproject." /\ event_type[2] \in LowerNames
    /\ event_type[3] = ".v0." /\ event_type[4] \in LowerNames

\* _check_event_type_naming: one finding per enum value off the pattern
check_event_type_naming(spec) ==
    LET off == SelectSeq(spec.eventTypes, LAMBDA e : ~event_type_matches(e))
    IN  [i \in 1..Len(off) |-> Issue("Medium", "Event Type Naming")]

lifecycle_events == <<"subscription-started", "subscription-updated", "subscription-ended">>

required_reasons ==
    <<"NETWORK_TERMINATED", "SUBSCRIPTION_EXPIRED", "MAX_EVENTS_REACHED",
      "ACCESS_TOKEN_EXPIRED", "SUBSCRIPTION_DELETED">>

\* the lifecycle events some event type contains (`lifecycle_event in event_type`)
found_events(spec) ==
    {e \in Range(lifecycle_events) :
        \E i \in 1..Len(spec.eventTypes) : Contains(spec.eventTypes[i], <<e>>)}

\* _check_subscription_lifecycle_events: the termination reasons are looked
\* at only when a subscription-ended event type exists and the
\* TerminationReason schema is there (and not empty); one finding per
\* missing reason
check_subscription_lifecycle_events(spec) ==
    IF "subscription-ended" \in found_events(spec) /\ spec.termination.kind = "schema"
    THEN LET missing == SelectSeq(required_reasons, LAMBDA r : r \notin spec.termination.enum)
         IN  [i \in 1..Len(missing) |-> Issue("Medium", "Subscription Events")]
    ELSE <<>>

\* _check_explicit_subscription_compliance
check_explicit_subscription_compliance(run, file) ==
    LET own == RunCheck(run, file, "Explicit subscription API compliance validation",
                        file.paths.kind = "null",
                        IF has_subscriptions_path(file) THEN <<>>
                        ELSE <<Issue("Critical", "Explicit Subscriptions")>>)
        cloud == RunCheck(own, file, ExplicitSubChecks[1], FALSE, file.foundTyped)
        naming == RunCheck(cloud, file, ExplicitSubChecks[2], FALSE,
                           check_event_type_naming(file))
        lifecycle == RunCheck(naming, file, ExplicitSubChecks[3], FALSE,
                              check_subscription_lifecycle_events(file))
    IN  RunChecks(lifecycle, file, SubSeq(ExplicitSubChecks, 4, 5), <<>>)

\* any('sink' in name.lower() for name in schemas.keys())
sink_named_schema(spec) ==
    \E i \in 1..Len(schema_entries(spec)) :
        Contains(Lower(schema_entries(spec)[i].name), <<"sink">>)

\* (mutant) any path with '/subscriptions' in it counts as a subscription
\* endpoint
is_subscriptions_endpoint_anywhere(path) == Contains(path, SUBSCRIPTIONS_END)

\* _check_implicit_subscription_compliance, "Should NOT have subscription
\* endpoints": path.endswith('/subscriptions') or '/subscriptions/' in path
is_subscriptions_endpoint(path) ==
    EndsWith(path, SUBSCRIPTIONS_END) \/ Contains(path, SUBSCRIPTIONS_SEG)

\* _check_implicit_subscription_compliance
check_implicit_subscription_compliance(run, file) ==
    LET own == RunCheck(run, file, "Implicit subscription API compliance validation",
                        FALSE, <<>>)
        cloud == IF in_schemas(CLOUD_EVENT, file)
                 THEN RunCheck(own, file, "CloudEvents compliance validation", FALSE,
                               file.foundTyped)
                 ELSE own
        scan == callbacks_scan(path_entries(file))
        callbacks == AddFindings(cloud, scan = "raise",
                         IF scan = "none" /\ in_schemas(CLOUD_EVENT, file)
                         THEN <<Issue("Medium", "Implicit Subscriptions")>> ELSE <<>>)
        sink == IF in_schemas(SINK_CREDENTIAL, file) \/ sink_named_schema(file)
                THEN RunCheck(callbacks, file, "Sink credential compliance validation",
                              FALSE, <<>>)
                ELSE callbacks
    IN  AddFindings(sink, FALSE,
            [i \in 1..Cardinality({j \in 1..Len(path_entries(file)) :
                                     is_subscriptions_endpoint(path_entries(file)[j].key)})
                |-> Issue("Medium", "Implicit Subscriptions")])

\* (mutant) the empty-document branch records its finding and falls through
\* to the extraction of info, which raises on the empty value
load_failure_no_return(file) ==
    IF file.load = "unopenable" THEN <<Issue("Critical", "Validation Error")>>
    ELSE IF file.load = "malformed" THEN <<Issue("Critical", "YAML Syntax")>>
    ELSE IF file.root = "empty"
        THEN <<Issue("Critical", "File Structure"), Issue("Critical", "Validation Error")>>
    ELSE <<>>

\* The findings of a file that yields no document: open() fails, the YAML
\* is malformed, or the document is empty (none when a document is loaded)
load_failure(file) ==
    IF file.load = "unopenable" THEN <<Issue("Critical", "Validation Error")>>
    ELSE IF file.load = "malformed" THEN <<Issue("Critical", "YAML Syntax")>>
    ELSE IF file.root = "empty" THEN <<Issue("Critical", "File Structure")>>
    ELSE <<>>

\* re.search(r'/([a-z0-9-]+)/v[\d\w\.]+', server_url) on servers[0].url: the
\* name between two slashes that a version segment follows ("none": no
\* servers, or no match)
VersionChunks == {"v0", "v1", "vwip", "v1rc1"}
server_url(spec) == IF spec.servers.kind = "list" THEN spec.servers.url ELSE <<>>
api_name_matches(url) ==
    {i \in 1..(Len(url) - 3) :
        /\ url[i] = "/" /\ url[i + 1] \in LowerNames
        /\ url[i + 2] = "/" /\ url[i + 3] \in VersionChunks}
extract_api_name(spec) ==
    IF api_name_matches(server_url(spec)) = {} THEN "none"
    ELSE LET first == CHOOSE i \in api_name_matches(server_url(spec)) :
                          \A j \in api_name_matches(server_url(spec)) : i <= j
         IN  server_url(spec)[first + 1]

\* scope.split(':'): the number of parts, and the first part
parts_count(scope) == Cardinality({i \in 1..Len(scope) : scope[i] = ":"}) + 1
first_part(scope) ==
    IF \A i \in 1..Len(scope) : scope[i] # ":" THEN scope
    ELSE LET colon == CHOOSE i \in 1..Len(scope) :
                          scope[i] = ":" /\ \A j \in 1..(i - 1) : scope[j] # ":"
         IN  SubSeq(scope, 1, colon - 1)

\* rf'^{api_name}:org\.camaraproject\.[a-z0-9-]+\.v\d+\.[a-z0-9-]+:(create|read|write|delete)$'
event_scope_matches(scope, api_name) ==
    /\ Len(scope) = 8
    /\ scope[1] = api_name /\ scope[2] = ":" /\ scope[3] = "org.camaraproject."
    /\ scope[4] \in LowerNames /\ scope[5] = ".v0." /\ scope[6] \in LowerNames
    /\ scope[7] = ":" /\ scope[8] \in {"create", "read", "write", "delete"}

\* _validate_scope_pattern: whether the scope gets a "Scope Naming" finding
scope_is_flagged(scope, api_name, api_type) ==
    IF api_type = EXPLICIT_SUBSCRIPTION
    THEN IF Len(scope) >= 3 /\ SubSeq(scope, 1, 3) = <<api_name, ":", "org.camaraproject.">>
             THEN ~event_scope_matches(scope, api_name)
         ELSE IF \E i \in 1..Len(scope) : scope[i] = ":"
             THEN parts_count(scope) # 2 \/ first_part(scope) # <<api_name>>
         ELSE FALSE
    ELSE IF parts_count(scope) \in {2, 3} THEN first_part(scope) # <<api_name>>
         ELSE TRUE

\* _check_scope_naming_patterns: nothing is checked without servers or
\* without an api-name in servers[0].url; otherwise every openId scope of
\* every operation (file.scopes) is validated
check_scope_naming_patterns(spec, api_type) ==
    IF extract_api_name(spec) = "none" THEN <<>>
    ELSE LET flagged == SelectSeq(spec.scopes,
                            LAMBDA scope : scope_is_flagged(scope, extract_api_name(spec),
                                                            api_type))
         IN  [i \in 1..Len(flagged) |-> Issue("Medium", "Scope Naming")]

\* spec.get('info', {}).get('version', '')
info_version(spec) == IF spec.version.kind = "str" THEN spec.version.text ELSE <<>>

WIP == <<"wip">>    \* 'wip'

\* re.match(r'^\d+\.\d+\.\d+(-rc\.\d+|-alpha\.\d+)?$', version): "1.0.0" is
\* three numbers, "-rc.1" and "-alpha.1" the two pre-release suffixes
version_format_matches(version) ==
    version \in {<<"1.0.0">>, <<"1.0.0", "-rc.1">>, <<"1.0.0", "-alpha.1">>}

\* _check_info_object, "Version check (enhanced for wip detection)"
check_info_version(spec) ==
    IF info_version(spec) # WIP /\ ~version_format_matches(info_version(spec))
    THEN <<Issue("Critical", "Info Object")>> ELSE <<>>

\* _check_servers_object on a document whose apiRoot variable has the
\* expected default: the missing servers object, the work-in-progress
\* version without 'vwip' in the url, and the release candidate whose url
\* lacks its version pattern (v1rc1 for 1.0.0-rc.1)
check_servers_object(spec) ==
    IF spec.servers.kind # "list" THEN <<Issue("Critical", "Servers Object")>>
    ELSE (IF info_version(spec) = WIP /\ ~Contains(server_url(spec), <<"vwip">>)
          THEN <<Issue("Medium", "Servers Object")>> ELSE <<>>)
         \o (IF /\ Contains(info_version(spec), <<"-rc.1">>) /\ info_version(spec) # WIP
                 /\ info_version(spec) = <<"1.0.0", "-rc.1">>
                 /\ ~Contains(server_url(spec), <<"v1rc1">>)
              THEN <<Issue("Critical", "Servers Object")>> ELSE <<>>)

\* _check_work_in_progress_version
check_work_in_progress_version(spec) ==
    (IF info_version(spec) = WIP THEN <<Issue("Critical", "Version")>> ELSE <<>>)
    \o (IF spec.servers.kind = "list" /\ Contains(server_url(spec), <<"vwip">>)
        THEN <<Issue("Critical", "Server URL")>> ELSE <<>>)

\* the findings of the always-run checks that the model tells apart; those of
\* the other rules are the document's `found` list
check_findings(spec, api_type, name) ==
    CASE name = "OpenAPI version validation" -> spec.found
      [] name = "Info object validation" -> check_info_version(spec)
      [] name = "Servers object validation" -> check_servers_object(spec)
      [] name = "Work-in-progress version validation" ->
             check_work_in_progress_version(spec)
      [] name = "Scope naming pattern validation" ->
             check_scope_naming_patterns(spec, api_type)
      [] OTHER -> <<>>

\* the always-run checks, as consecutive calls
RECURSIVE RunBattery(_, _, _, _)
RunBattery(run, spec, api_type, names) ==
    IF names = <<>> THEN run
    ELSE RunBattery(RunCheck(run, spec, Head(names), FALSE,
                             check_findings(spec, api_type, Head(names))),
                    spec, api_type, Tail(names))

\* _check_security_schemes is the first check that goes through paths.items()
\* and path_obj.items(): it raises on a `paths` that is null and on a path
\* item that is null
security_schemes_raises(file) ==
    \/ file.paths.kind = "null"
    \/ \E i \in 1..Len(path_entries(file)) : path_entries(file)[i].obj.kind = "null"

\* the file with the position of the first raising check of its battery
WithShapeError(file) ==
    LET at == CHOOSE i \in 1..Len(AlwaysRunChecks) :
                  AlwaysRunChecks[i] = "Security schemes validation"
    IN  IF security_schemes_raises(file) /\ (file.raisesAt = 0 \/ file.raisesAt > at)
        THEN [file EXCEPT !.raisesAt = at]
        ELSE file

\* CAMARAAPIValidator.validate_api_file: the ValidationResult returned
validate_api_file(file) ==
    IF load_failure(file) # <<>>
        THEN [NewResult EXCEPT !.issues = load_failure(file)]
    ELSE IF file.root = "other" \/ file.info = "null"
        THEN [NewResult EXCEPT !.issues = <<Issue("Critical", "Validation Error")>>]
    ELSE IF determine_api_type(file) = "raise"
        THEN [NewResult EXCEPT !.issues = <<Issue("Critical", "Validation Error")>>]
    ELSE LET typed == [NewResult EXCEPT !.api_type = determine_api_type(file)]
             spec == WithShapeError(file)
             battery == RunBattery(StartRun(typed), spec, typed.api_type, AlwaysRunChecks)
             specific ==
                 IF typed.api_type = EXPLICIT_SUBSCRIPTION
                     THEN check_explicit_subscription_compliance(battery, spec)
                 ELSE IF typed.api_type = IMPLICIT_SUBSCRIPTION
                     THEN check_implicit_subscription_compliance(battery, spec)
                 ELSE battery
         IN  IF specific.raised
             THEN [specific.result EXCEPT
                      !.issues = Append(@, Issue("Critical", "Validation Error"))]
             ELSE [specific.result EXCEPT !.manual_checks_needed = typed.api_type]

-----------------------------------------------------------------------------
(* Part B: inputs *)

Str(text) == [kind |-> "str", text |-> text]
NoTitle == [kind |-> "absent", text |-> <<>>]
NonStringTitle == [kind |-> "nonstring", text |-> <<>>]

PathObj(ops) == [kind |-> "map", ops |-> ops]
NullPathObj == [kind |-> "null", ops |-> <<>>]
PathObjs ==
    {NullPathObj, PathObj(<<>>), PathObj(<<"op">>), PathObj(<<"other">>),
     PathObj(<<"op+callbacks">>), PathObj(<<"op", "op+callbacks">>)}

Props(names) == [kind |-> "map", names |-> names]
NoProps == [kind |-> "absent", names |-> {}]
NullProps == [kind |-> "null", names |-> {}]
SchemaBodies ==
    {[kind |-> "other", props |-> NoProps]}
    \cup {[kind |-> "map", props |-> p] :
            p \in {NoProps, NullProps, Props({}), Props({"sink"}),
                   Props({"sinkCredential"}), Props({"other"})}}

Mapping(entries) == [kind |-> "map", entries |-> entries]
Absent == [kind |-> "absent", entries |-> <<>>]
Null == [kind |-> "null", entries |-> <<>>]

\* sequences of at most n entries with pairwise different keys
DistinctBy(seqs, Key(_)) ==
    {q \in seqs : \A i, j \in 1..Len(q) : i # j => Key(q[i]) # Key(q[j])}

\* every one-entry `paths` mapping, and the mappings of up to MaxEntries
\* entries over three keys
AllPaths ==
    {Mapping(<<[key |-> k, obj |-> o]>>) : k \in SeqsUpTo(PathChunks, MaxChunks), o \in PathObjs}
    \cup {Mapping(q) :
            q \in DistinctBy(SeqsUpTo([key : {<<"/", "x">>, <<"/", "subscriptions">>,
                                              <<"/", "subscriptions", "/">>},
                                       obj : {NullPathObj, PathObj(<<"op">>),
                                              PathObj(<<"op+callbacks">>)}],
                                      MaxEntries),
                             LAMBDA e : e.key)}
    \cup {Absent, Null}

SchemaEntry(name, body) == [name |-> name, kind |-> body.kind, props |-> body.props]

\* every one-entry `schemas` mapping, and the mappings of up to MaxEntries
\* entries over three names
AllSchemas ==
    {Mapping(<<SchemaEntry(n, b)>>) : n \in SeqsUpTo(NameChunks, MaxChunks), b \in SchemaBodies}
    \cup {Mapping(q) :
            q \in DistinctBy(SeqsUpTo({SchemaEntry(n, b) :
                                          n \in {CLOUD_EVENT, SINK_CREDENTIAL, <<"Credential">>},
                                          b \in {[kind |-> "map", props |-> NoProps],
                                                 [kind |-> "map", props |-> Props({"sink"})]}},
                                      MaxEntries),
                             LAMBDA e : e.name)}
    \cup {Absent, Null}

AllTitles ==
    {NoTitle, NonStringTitle} \cup {Str(t) : t \in SeqsUpTo(TitleChunks, MaxChunks)}
SomeTitles == {NoTitle, Str(<<"API">>), Str(<<"Sub", "scription">>)}

FoundLists ==
    {<<>>, <<Issue("Medium", "Check")>>, <<Issue("Critical", "Check"), Issue("Low", "Check")>>}

\* components.schemas.TerminationReason: absent, an empty mapping, or a schema
\* with the set of its enum values
NoTermination == [kind |-> "absent", enum |-> {}]
EmptyTermination == [kind |-> "empty", enum |-> {}]
Termination(reasons) == [kind |-> "schema", enum |-> reasons]

\* info.version: absent, or the text
NoVersion == [kind |-> "absent", text |-> <<>>]

\* servers: absent (or an empty list), or a list whose first url is the text
NoServers == [kind |-> "absent", url |-> <<>>]
Servers(url) == [kind |-> "list", url |-> url]

DefaultFile ==
    [load |-> "parsed", root |-> "map", info |-> "map", title |-> NoTitle,
     paths |-> Absent, components |-> "map", schemas |-> Absent,
     eventTypes |-> <<>>, termination |-> NoTermination,
     version |-> Str(<<"1.0.0">>), servers |-> Servers(<<"{apiRoot}", "/", "api", "/", "v0">>),
     scopes |-> <<>>,
     found |-> <<>>, foundTyped |-> <<>>, raisesAt |-> 0]

\* files that yield no document, or a document that is no mapping
UnloadedFile(f) ==
    \E l \in {"unopenable", "malformed", "parsed"}, r \in {"empty", "other"},
       t \in SomeTitles, g \in FoundLists, k \in {0, 1} :
        f = [DefaultFile EXCEPT !.load = l, !.root = r, !.title = t, !.found = g,
                                !.raisesAt = k]

\* documents that vary in one section at a time, the others taken from a few
\* shapes that match or miss each rule
SubscriptionsPath == Mapping(<<[key |-> <<"/", "subscriptions">>, obj |-> PathObj(<<"op">>)]>>)
CallbacksPath == Mapping(<<[key |-> <<"/", "x">>, obj |-> PathObj(<<"op+callbacks">>)]>>)
NullItemPath == Mapping(<<[key |-> <<"/", "x">>, obj |-> NullPathObj]>>)
CloudEventSchema ==
    Mapping(<<SchemaEntry(CLOUD_EVENT, [kind |-> "map", props |-> NoProps])>>)
SinkPropertySchema ==
    Mapping(<<SchemaEntry(<<"Credential">>, [kind |-> "map", props |-> Props({"sink"})])>>)

TitleFile(f) ==
    \E i \in {"absent", "null", "map"}, t \in AllTitles,
       p \in {Absent, Null, SubscriptionsPath},
       c \in {"null", "map"}, s \in {Absent, CloudEventSchema} :
        f = [DefaultFile EXCEPT !.info = i, !.title = t, !.paths = p, !.components = c,
                                !.schemas = s]
PathFile(f) ==
    \E t \in {Str(<<"API">>), Str(<<"Sub", "scription">>)}, p \in AllPaths,
       s \in {Absent, Null, CloudEventSchema, SinkPropertySchema} :
        f = [DefaultFile EXCEPT !.title = t, !.paths = p, !.schemas = s]
SchemaFile(f) ==
    \E t \in {Str(<<"API">>), Str(<<"Sub", "scription">>)},
       p \in {Absent, SubscriptionsPath, CallbacksPath, NullItemPath},
       c \in {"absent", "map"}, s \in AllSchemas :
        f = [DefaultFile EXCEPT !.title = t, !.paths = p, !.components = c, !.schemas = s]

\* documents whose checks find something or raise
BatteryFile(f) ==
    \E t \in SomeTitles, p \in {Absent, SubscriptionsPath, CallbacksPath},
       s \in {Absent, CloudEventSchema, SinkPropertySchema},
       g \in FoundLists, h \in {<<>>, <<Issue("Critical", "Check")>>},
       k \in 0..(Len(AlwaysRunChecks) + Len(ExplicitSubChecks) + 1) :
        f = [DefaultFile EXCEPT !.title = t, !.paths = p, !.schemas = s,
                                !.found = g, !.foundTyped = h, !.raisesAt = k]

\* event types: well-formed ones of each lifecycle event and of another
\* event, and a bare lifecycle event name
EventType(event) == <<"org.camaraproject.", "api", ".v0.", event>>
EventTypeValues ==
    {EventType(e) : e \in Range(lifecycle_events) \cup {"x"}} \cup {<<"subscription-ended">>}
Terminations ==
    {NoTermination, EmptyTermination, Termination({}), Termination(Range(required_reasons))}
    \cup {Termination(Range(required_reasons) \ {r}) :
             r \in {"NETWORK_TERMINATED", "SUBSCRIPTION_DELETED"}}

\* documents that vary in their event types and termination reasons
LifecycleFile(f) ==
    \E t \in {Str(<<"API">>), Str(<<"Sub", "scription">>)},
       p \in {Absent, SubscriptionsPath},
       e \in SeqsUpTo(EventTypeValues, MaxEntries), r \in Terminations, k \in {0, 18, 19} :
        f = [DefaultFile EXCEPT !.title = t, !.paths = p, !.schemas = Mapping(<<>>),
                                !.eventTypes = e, !.termination = r, !.raisesAt = k]

\* scopes of the api "api": simple, resource-based, event-qualified, of
\* another api, without a colon, and with too many parts
ScopeValues ==
    {<<"api", ":", "read">>, <<"x", ":", "read">>,
     <<"api", ":", "x", ":", "read">>, <<"x", ":", "x", ":", "read">>,
     <<"read">>, <<"api", ":", "x", ":", "x", ":", "read">>,
     <<"api", ":", "org.camaraproject.", "api", ".v0.", "x", ":", "read">>,
     <<"api", ":", "org.camaraproject.", "api", ".v0.", "x", ":", "x">>,
     <<"x", ":", "org.camaraproject.", "api", ".v0.", "x", ":", "read">>}

ServerValues ==
    {NoServers, Servers(<<"{apiRoot}", "/", "api", "/", "v0">>),
     Servers(<<"{apiRoot}", "/", "v0">>)}

\* documents that vary in their server url and their openId scopes
ScopeFile(f) ==
    \E t \in {Str(<<"API">>), Str(<<"Sub", "scription">>)},
       s \in {Absent, CloudEventSchema}, u \in ServerValues,
       c \in SeqsUpTo(ScopeValues, MaxEntries) :
        f = [DefaultFile EXCEPT !.title = t, !.schemas = s, !.servers = u, !.scopes = c]

\* documents that vary in their version and their server url, and whose
\* checks raise or not
WipFile(f) ==
    \E t \in {Str(<<"API">>), Str(<<"Sub", "scription">>)},
       v \in {NoVersion, Str(WIP), Str(<<"1.0.0">>), Str(<<"1.0.0", "-rc.1">>), Str(<<"x">>)},
       u \in {NoServers, Servers(<<>>), Servers(<<"{apiRoot}", "/", "api", "/", "v0">>),
              Servers(<<"{apiRoot}", "/", "api", "/", "vwip">>),
              Servers(<<"{apiRoot}", "/", "api", "/", "v1rc1">>)},
       k \in {0, 2, 4, 13} :
        f = [DefaultFile EXCEPT !.title = t, !.version = v, !.servers = u, !.raisesAt = k]

-----------------------------------------------------------------------------
(* Part B: the state machine of one file under the validator *)

ApiInit ==
    /\ \/ UnloadedFile(afile)
       \/ TitleFile(afile)
       \/ PathFile(afile)
       \/ SchemaFile(afile)
       \/ BatteryFile(afile)
       \/ LifecycleFile(afile)
       \/ ScopeFile(afile)
       \/ WipFile(afile)
    /\ cls = "none"
    /\ ares = [NewResult EXCEPT !.manual_checks_needed = "new"]
    /\ mdoc = "none" /\ mcfg = "none" /\ errors = <<>> /\ warnings = <<>>
    /\ mresult = "none" /\ phases = <<>> /\ calls = 0
    /\ NoRun

Returned(result) == result.manual_checks_needed # "new"

\* _determine_api_type(api_spec) on the parsed, non-empty document
DetermineApiType ==
    /\ afile.load = "parsed" /\ afile.root = "map"
    /\ cls = "none"
    /\ cls' = determine_api_type(afile)
    /\ UNCHANGED <<afile, ares>>
    /\ UNCHANGED metaVars
    /\ UNCHANGED runVars

\* validate_api_file(file_path)
ValidateApiFile ==
    /\ ~Returned(ares)
    /\ ares' = validate_api_file(afile)
    /\ UNCHANGED <<afile, cls>>
    /\ UNCHANGED metaVars
    /\ UNCHANGED runVars

ApiNext == DetermineApiType \/ ValidateApiFile

SpecApi == ApiInit /\ [][ApiNext]_vars

-----------------------------------------------------------------------------
(* Part B: properties of the classifier and of validate_api_file *)

C8_Title == IF afile.info = "map" /\ afile.title.kind = "str" THEN afile.title.text ELSE <<>>
C8_Paths == IF afile.paths.kind = "map" THEN afile.paths.entries ELSE <<>>
C8_Schemas ==
    IF afile.components = "map" /\ afile.schemas.kind = "map"
    THEN afile.schemas.entries ELSE <<>>

\* (1) the title contains "subscription" in any letter case
C8_Rule1 ==
    \E i \in 1..(Len(C8_Title) - 1) :
        C8_Title[i] \in {"sub", "Sub"} /\ C8_Title[i + 1] = "scription"
\* (2) a path ends with /subscriptions or contains /subscriptions/
C8_Rule2 ==
    \E e \in Range(C8_Paths) :
        \/ Len(e.key) >= 2 /\ e.key[Len(e.key) - 1] = "/" /\ e.key[Len(e.key)] = "subscriptions"
        \/ \E i \in 1..(Len(e.key) - 2) :
              e.key[i] = "/" /\ e.key[i + 1] = "subscriptions" /\ e.key[i + 2] = "/"
\* (3) a schema named CloudEvent is defined
C8_Rule3 == \E e \in Range(C8_Schemas) : e.name = <<"CloudEvent">>
\* (4) a schema name contains "SinkCredential"
C8_Rule4 ==
    \E e \in Range(C8_Schemas) :
        \E i \in 1..(Len(e.name) - 1) : e.name[i] = "Sink" /\ e.name[i + 1] = "Credential"
\* (5) an operation defines callbacks
C8_Rule5 == \E e \in Range(C8_Paths) : "op+callbacks" \in Range(e.obj.ops)
\* (6) a schema has a `sink` or `sinkCredential` property
C8_Rule6 ==
    \E e \in Range(C8_Schemas) :
        e.kind = "map" /\ e.props.kind = "map"
        /\ ("sink" \in e.props.names \/ "sinkCredential" \in e.props.names)

C8_FirstMatch ==
    IF C8_Rule1 \/ C8_Rule2 THEN EXPLICIT_SUBSCRIPTION
    ELSE IF C8_Rule3 \/ C8_Rule4 \/ C8_Rule5 \/ C8_Rule6 THEN IMPLICIT_SUBSCRIPTION
    ELSE REGULAR

\* C8: whenever _determine_api_type returns, it returns the outcome of the
\* first matching rule of the ordered table (title, subscriptions path,
\* CloudEvent schema, SinkCredential schema name, callbacks, sink property,
\* otherwise Regular).
C8_FirstMatchWins == cls \in APIType => cls = C8_FirstMatch

C8_Witness ==
    /\ cls = EXPLICIT_SUBSCRIPTION
    /\ C8_Title = <<"API", "Sub", "scription">>
    /\ ~C8_Rule2 /\ C8_Rule3

\* C9: classification never fails: on every parsed, non-empty document,
\* whatever the shape of its sections, _determine_api_type yields one of the
\* three API types without raising.
C9_NeverFails == cls # "none" => cls \in APIType

\* C10: a file that cannot be opened, is malformed YAML, or parses to an
\* empty value gets a result with exactly one finding, Critical, and no
\* check recorded in checks_performed.
C10_LoadFailure ==
    (Returned(ares) /\ (afile.load \in {"unopenable", "malformed"} \/ afile.root = "empty")) =>
        /\ Len(ares.issues) = 1
        /\ ares.issues[1].severity = "Critical"
        /\ ares.checks_performed = <<>>

C10_Witness ==
    /\ Returned(ares) /\ afile.load = "parsed" /\ afile.root = "empty"
    /\ ares.issues = <<Issue("Critical", "File Structure")>>
    /\ ares.checks_performed = <<>>

\* C13: for every document that loaded and is non-empty (here: a mapping
\* that the classifier gave a type), validate_api_file runs every check of
\* the always-run battery, in order, however the earlier checks ended.
C13_BatteryComplete ==
    (/\ Returned(ares) /\ afile.load = "parsed" /\ afile.root = "map"
     /\ afile.info # "null" /\ determine_api_type(afile) \in APIType) =>
        /\ Len(ares.checks_performed) >= Len(AlwaysRunChecks)
        /\ SubSeq(ares.checks_performed, 1, Len(AlwaysRunChecks)) = AlwaysRunChecks

\* the document loaded as a mapping and the classifier gave it a type
C22_Classified ==
    /\ Returned(ares) /\ afile.load = "parsed" /\ afile.root = "map"
    /\ afile.info # "null" /\ determine_api_type(afile) \in APIType

C22_Ran(name) ==
    \E i \in 1..Len(ares.checks_performed) : ares.checks_performed[i] = name

\* C22: the type of the result is the classification of the document, the
\* explicit-subscription checks have run if and only if that type is
\* ExplicitSubscription, and the implicit-subscription checks have run if and
\* only if it is ImplicitSubscription (so a Regular document gets neither and
\* no document gets both).
C22_ClassificationGates ==
    C22_Classified =>
        /\ ares.api_type = determine_api_type(afile)
        /\ C22_Ran("Explicit subscription API compliance validation")
               <=> ares.api_type = EXPLICIT_SUBSCRIPTION
        /\ C22_Ran("Implicit subscription API compliance validation")
               <=> ares.api_type = IMPLICIT_SUBSCRIPTION

\* C23: a document classified ExplicitSubscription gets exactly one
\* "Explicit Subscriptions" finding, Critical, when none of its paths ends
\* with /subscriptions or contains /subscriptions/, and none when one does.
C23_ExplicitNeedsPath ==
    (C22_Classified /\ determine_api_type(afile) = EXPLICIT_SUBSCRIPTION) =>
        /\ Count(ares.issues, LAMBDA i : i.category = "Explicit Subscriptions")
               = IF C8_Rule2 THEN 0 ELSE 1
        /\ \A i \in 1..Len(ares.issues) :
               ares.issues[i].category = "Explicit Subscriptions"
                   => ares.issues[i].severity = "Critical"

\* the lifecycle check ran on the document to its end
C24_Checked ==
    /\ C22_Classified /\ ares.api_type = EXPLICIT_SUBSCRIPTION
    /\ C22_Ran("Sink validation")

C24_HasLifecycleEvent ==
    \E i \in 1..Len(afile.eventTypes) :
        \E e \in {"subscription-started", "subscription-updated", "subscription-ended"} :
            e \in Range(afile.eventTypes[i])

C24_ReasonsComplete ==
    /\ afile.termination.kind = "schema"
    /\ {"NETWORK_TERMINATED", "SUBSCRIPTION_EXPIRED", "MAX_EVENTS_REACHED",
        "ACCESS_TOKEN_EXPIRED", "SUBSCRIPTION_DELETED"} \subseteq afile.termination.enum

\* C24: on an ExplicitSubscription document whose lifecycle check ran, an
\* event-type enumeration with a subscription-started, subscription-updated
\* or subscription-ended event type and no TerminationReason enumeration
\* holding all five reason codes yields a "Subscription Events" finding.
C24_LifecycleComplete ==
    (C24_Checked /\ C24_HasLifecycleEvent /\ ~C24_ReasonsComplete) =>
        \E i \in 1..Len(ares.issues) : ares.issues[i].category = "Subscription Events"

\* the api-name of the server url "{apiRoot}/<name>/<version>"
C25_ApiName ==
    IF /\ afile.servers.kind = "list" /\ Len(afile.servers.url) = 5
       /\ afile.servers.url[2] = "/" /\ afile.servers.url[4] = "/"
    THEN afile.servers.url[3] ELSE "none"

\* the positions of the colons of a scope
C25_Colons(scope) == {i \in 1..Len(scope) : scope[i] = ":"}

\* api-name:action or api-name:resource:action with the api-name of the
\* server url; the event-qualified form
\* api-name:org.camaraproject.<api>.v<n>.<event>:<action>, allowed for
\* ExplicitSubscription documents, is one of the latter
C25_Allowed(scope) ==
    /\ Cardinality(C25_Colons(scope)) \in {1, 2}
    /\ scope[1] = C25_ApiName /\ scope[2] = ":"

\* C25: on a document with an api-name in servers[0].url (and all checks
\* run), the "Scope Naming" findings are as many as the openId scopes that
\* are of none of the allowed forms, one Medium finding for each, so a scope
\* of an allowed form yields none.
C25_ScopeNaming ==
    (C22_Classified /\ C22_Ran("Deep filename consistency validation")
     /\ C25_ApiName # "none") =>
        /\ Count(ares.issues, LAMBDA i : i.category = "Scope Naming")
               = Count(afile.scopes, LAMBDA scope : ~C25_Allowed(scope))
        /\ \A i \in 1..Len(ares.issues) :
               ares.issues[i].category = "Scope Naming" => ares.issues[i].severity = "Medium"

\* no check raised on the document: its result holds no "Validation Error"
C27_NoCheckRaised ==
    C22_Classified /\ \A i \in 1..Len(ares.issues) : ares.issues[i].category # "Validation Error"

C27_Fifteen ==
    <<"OpenAPI version validation", "Info object validation",
      "Servers object validation", "ExternalDocs validation",
      "Security schemes validation", "Error responses validation",
      "X-Correlator validation", "Date-time fields validation",
      "Reserved words validation", "Device schema validation",
      "File naming validation", "Work-in-progress version validation",
      "Updated Generic401 response validation", "Scope naming pattern validation",
      "Deep filename consistency validation">>

C27_Gated ==
    {"Explicit subscription API compliance validation",
     "Implicit subscription API compliance validation",
     "CloudEvents compliance validation", "Event type naming validation",
     "Subscription lifecycle events validation", "Sink validation",
     "Subscription error codes validation", "Sink credential compliance validation"}

\* C27: on every classified document on which no check raised,
\* checks_performed begins with the fifteen always-run checks in their fixed
\* order, whatever the type and the findings, and the names of the
\* type-specific checks come only after them.
C27_BatteryFirst ==
    C27_NoCheckRaised =>
        /\ Len(ares.checks_performed) >= 15
        /\ SubSeq(ares.checks_performed, 1, 15) = C27_Fifteen
        /\ \A i \in 1..Len(ares.checks_performed) :
               ares.checks_performed[i] \in C27_Gated => i > 15
        /\ \A i \in 16..Len(ares.checks_performed) :
               ares.checks_performed[i] \in C27_Gated

\* an ExplicitSubscription document with findings whose 21 checks all ran
C27_Witness ==
    /\ C27_NoCheckRaised /\ ares.api_type = EXPLICIT_SUBSCRIPTION
    /\ Len(ares.checks_performed) = 21 /\ Len(ares.issues) >= 3

\* C28: no document classified ImplicitSubscription has a path that ends
\* with /subscriptions or contains /subscriptions/, and no result holds the
\* finding "Implicit subscription API should not have /subscriptions
\* endpoint": the only "Implicit Subscriptions" finding a result can hold is
\* the one of an ImplicitSubscription document with a CloudEvent schema and
\* no callbacks.
C28_NoMismatchFinding ==
    /\ (cls = IMPLICIT_SUBSCRIPTION \/ (Returned(ares) /\ ares.api_type = IMPLICIT_SUBSCRIPTION))
           => ~C8_Rule2
    /\ Returned(ares) =>
           Count(ares.issues, LAMBDA i : i.category = "Implicit Subscriptions")
               <= IF ares.api_type = IMPLICIT_SUBSCRIPTION /\ C8_Rule3 /\ ~C8_Rule5
                  THEN 1 ELSE 0

\* an ImplicitSubscription document with the path /subscriptionsx, whose
\* implicit-subscription checks ran to their end
C28_Witness ==
    /\ C27_NoCheckRaised /\ ares.api_type = IMPLICIT_SUBSCRIPTION
    /\ C22_Ran("Implicit subscription API compliance validation")
    /\ \E e \in Range(C8_Paths) : e.key = <<"/", "subscriptions", "x">>
    /\ Count(ares.issues, LAMBDA i : i.category = "Implicit Subscriptions") = 1

\* validate_api_file returned on a loaded document whose info.version is wip
C29_Wip ==
    /\ Returned(ares) /\ afile.load = "parsed" /\ afile.root = "map" /\ afile.info = "map"
    /\ afile.version = Str(<<"wip">>)

C29_Has(severity, category) ==
    \E i \in 1..Len(ares.issues) : ares.issues[i] = Issue(severity, category)

\* C29: the result of a document whose version is wip holds a Critical
\* finding, and when the document has a servers list it holds the Medium
\* "Servers Object" finding (url without vwip) or the Critical "Server URL"
\* finding (url with vwip).
C29_WipNeverClean ==
    C29_Wip =>
        /\ \E i \in 1..Len(ares.issues) : ares.issues[i].severity = "Critical"
        /\ afile.servers.kind = "list" =>
               C29_Has("Medium", "Servers Object") \/ C29_Has("Critical", "Server URL")

-----------------------------------------------------------------------------
(* Part C: documents of a repository.  A document is                       *)
(*   name           the stem of its file name, as the parts between '-'    *)
(*   file           the file as Part B sees it (load, root, sections)      *)
(*   defs           the definitions components.schemas gives to shared     *)
(*                  schema names: a function from names to schema nodes    *)
(*   license        info.license:  [kind: "absent" | "empty" | "map", text]*)
(*   commonalities  info.x-camara-commonalities:                           *)
(*                  [kind: "absent" | "str" | "num", text]                 *)
(*   operationIds   the operationId values of the operations under paths   *)
(* A schema node is a scalar, a mapping (a function from keys to nodes) or *)
(* a list (a sequence of nodes).                                           *)

Scalar(v) == [kind |-> "scalar", value |-> v]
Dict(f) == [kind |-> "dict", items |-> f]
List(q) == [kind |-> "list", elems |-> q]

\* The outcome of a call: a result object, or the exception it raised
Returns(issues, checks) == [kind |-> "result", issues |-> issues, checks_performed |-> checks]
Raises == [kind |-> "raise", issues |-> <<>>, checks_performed |-> <<>>]
None == [kind |-> "none", issues |-> <<>>, checks_performed |-> <<>>]

\* ValidationIssue(severity, category, description, location) of the
\* project-wide checks: `subject` is what the description names, `location`
\* the two file names of "<reference> vs <other>"
ConsistencyIssue(severity, category, subject, location) ==
    [severity |-> severity, category |-> category, subject |-> subject,
     location |-> location]

common_schema_names ==
    <<"XCorrelator", "ErrorInfo", "Device", "DeviceResponse", "PhoneNumber",
      "NetworkAccessIdentifier", "DeviceIpv4Addr", "DeviceIpv6Address",
      "SingleIpv4Addr", "Port", "Point", "Latitude", "Longitude", "Area",
      "AreaType", "Circle">>

\* normalize_schema: every key 'description' of every mapping is dropped
RECURSIVE normalize_schema(_)
normalize_schema(schema) ==
    IF schema.kind = "dict"
        THEN Dict([key \in DOMAIN schema.items \ {"description"} |->
                      normalize_schema(schema.items[key])])
    ELSE IF schema.kind = "list"
        THEN List([i \in DOMAIN schema.elems |-> normalize_schema(schema.elems[i])])
    ELSE schema

\* Python's == on parsed YAML values
RECURSIVE py_equal(_, _)
py_equal(a, b) ==
    IF a.kind # b.kind THEN FALSE
    ELSE IF a.kind = "dict"
        THEN /\ DOMAIN a.items = DOMAIN b.items
             /\ \A key \in DOMAIN a.items : py_equal(a.items[key], b.items[key])
    ELSE IF a.kind = "list"
        THEN /\ Len(a.elems) = Len(b.elems)
             /\ \A i \in DOMAIN a.elems : py_equal(a.elems[i], b.elems[i])
    ELSE a.value = b.value

\* (mutant) descriptions take part in the comparison
schemas_equivalent_with_descriptions(schema1, schema2) == py_equal(schema1, schema2)

\* _schemas_equivalent
schemas_equivalent(schema1, schema2) ==
    py_equal(normalize_schema(schema1), normalize_schema(schema2))

\* spec.get('components', {}).get('schemas', {}): the shared definitions
NoDefs == [name \in {} |-> Scalar("")]
schemas_of(spec) ==
    IF spec.file.components = "map" /\ spec.file.schemas.kind = "map" THEN spec.defs
    ELSE NoDefs

\* The accesses of the project-wide checks that raise on a document: .get on
\* a value that is no mapping (the None of an empty file, a null `components`
\* or `info`), `in` on a null `schemas`
consistency_access_raises(spec) ==
    \/ spec.file.root # "map"
    \/ spec.file.components = "null"
    \/ spec.file.components = "map" /\ spec.file.schemas.kind = "null"
    \/ spec.file.info = "null"

\* (mutant) a schema counts as shared from three defining files on
validate_shared_schema_from_three(schema_name, specs) ==
    LET found == SelectSeq(specs, LAMBDA spec : schema_name \in DOMAIN schemas_of(spec))
        differing ==
            IF Len(found) < 3 THEN <<>>
            ELSE SelectSeq(Tail(found), LAMBDA spec :
                     ~schemas_equivalent(schemas_of(found[1])[schema_name],
                                         schemas_of(spec)[schema_name]))
    IN  [i \in 1..Len(differing) |->
            ConsistencyIssue("Critical", "Shared Schema Consistency", schema_name,
                             <<found[1].name, differing[i].name>>)]

\* _validate_shared_schema: the findings it appends.  The reference is the
\* first file that defines the schema
validate_shared_schema(schema_name, specs) ==
    LET found == SelectSeq(specs, LAMBDA spec : schema_name \in DOMAIN schemas_of(spec))
        differing ==
            IF Len(found) < 2 THEN <<>>
            ELSE SelectSeq(Tail(found), LAMBDA spec :
                     ~schemas_equivalent(schemas_of(found[1])[schema_name],
                                         schemas_of(spec)[schema_name]))
    IN  [i \in 1..Len(differing) |->
            ConsistencyIssue("Critical", "Shared Schema Consistency", schema_name,
                             <<found[1].name, differing[i].name>>)]

\* spec.get('info', {}).get('license', {}), kept when truthy
license_of(spec) ==
    IF spec.file.info = "map" THEN spec.license ELSE [kind |-> "absent", text |-> ""]
has_license(spec) == license_of(spec).kind = "map"

\* (mutant) the reference is the first file, with or without a license
validate_license_consistency_first_file(specs) ==
    LET differing ==
            IF Len(SelectSeq(specs, has_license)) < 2 THEN <<>>
            ELSE SelectSeq(Tail(specs), LAMBDA spec :
                     license_of(spec).text # license_of(specs[1]).text)
    IN  [i \in 1..Len(differing) |->
            ConsistencyIssue("Medium", "License Consistency", "license",
                             <<specs[1].name, differing[i].name>>)]

\* _validate_license_consistency: the findings it appends.  The reference is
\* the first file with a non-empty license block
validate_license_consistency(specs) ==
    LET licenses == SelectSeq(specs, has_license)
        differing ==
            IF Len(licenses) < 2 THEN <<>>
            ELSE SelectSeq(Tail(licenses), LAMBDA spec :
                     license_of(spec).text # license_of(licenses[1]).text)
    IN  [i \in 1..Len(differing) |->
            ConsistencyIssue("Medium", "License Consistency", "license",
                             <<licenses[1].name, differing[i].name>>)]

\* spec.get('info', {}).get('x-camara-commonalities'), kept when truthy; the
\* text of a number is what str() gives for it
commonalities_of(spec) ==
    IF spec.file.info = "map" THEN spec.commonalities ELSE [kind |-> "absent", text |-> ""]
has_commonalities(spec) ==
    \/ commonalities_of(spec).kind = "str" /\ commonalities_of(spec).text # ""
    \/ commonalities_of(spec).kind = "num" /\ commonalities_of(spec).text # "0"

\* _validate_commonalities_consistency: the findings it appends.  The
\* reference is the first file with a truthy version stamp
validate_commonalities_consistency(specs) ==
    LET versions == SelectSeq(specs, has_commonalities)
        differing ==
            IF Len(versions) < 2 THEN <<>>
            ELSE SelectSeq(Tail(versions), LAMBDA spec :
                     commonalities_of(spec).text # commonalities_of(versions[1]).text)
    IN  [i \in 1..Len(differing) |->
            ConsistencyIssue("Medium", "Commonalities Consistency", "x-camara-commonalities",
                             <<versions[1].name, differing[i].name>>)]

\* The findings of the files yaml.safe_load gave no value for
file_loading_issues(api_files_) ==
    LET failed == SelectSeq(api_files_, LAMBDA doc : doc.file.load # "parsed")
    IN  [i \in 1..Len(failed) |->
            ConsistencyIssue("Critical", "File Loading", "file", <<failed[i].name>>)]

\* the findings of the three project-wide checks on the loaded documents
consistency_issues(specs) ==
    Flatten([n \in 1..Len(common_schema_names) |->
                validate_shared_schema(common_schema_names[n], specs)])
    \o validate_license_consistency(specs)
    \o validate_commonalities_consistency(specs)

\* (mutant) no early return on fewer than two paths
validate_project_consistency_no_guard(api_files_) ==
    LET checks == <<"Project-wide shared schema validation">>
        specs == SelectSeq(api_files_, LAMBDA doc : doc.file.load = "parsed")
    IN  IF Len(specs) < 2 THEN Returns(file_loading_issues(api_files_), checks)
        ELSE IF \E i \in 1..Len(specs) : consistency_access_raises(specs[i]) THEN Raises
        ELSE Returns(file_loading_issues(api_files_) \o consistency_issues(specs), checks)

\* CAMARAAPIValidator.validate_project_consistency: the ConsistencyResult
\* returned, or the exception raised
validate_project_consistency(api_files_) ==
    LET checks == <<"Project-wide shared schema validation">>
        specs == SelectSeq(api_files_, LAMBDA doc : doc.file.load = "parsed")
    IN  IF Len(api_files_) < 2 THEN Returns(<<>>, checks)
        ELSE IF Len(specs) < 2 THEN Returns(file_loading_issues(api_files_), checks)
        ELSE IF \E i \in 1..Len(specs) : consistency_access_raises(specs[i]) THEN Raises
        ELSE Returns(file_loading_issues(api_files_) \o consistency_issues(specs), checks)

\* Path.glob(f"{api_name}-*.feature"): the name goes on after the stem and '-'
IsPrefix(s, t) == Len(s) <= Len(t) /\ SubSeq(t, 1, Len(s)) = s
glob_matches(api_name, test_name) == IsPrefix(api_name, test_name) /\ test_name # api_name

\* _find_test_files: <api_name>.feature first, then the files the glob yields
find_test_files(dir, api_name) ==
    IF ~dir.exists THEN <<>>
    ELSE SelectSeq(dir.files, LAMBDA test : test.name = api_name)
         \o SelectSeq(dir.files, LAMBDA test : glob_matches(api_name, test.name))

\* TestAlignmentResult, or the exception the call raised
TestReturns(api_file, files, issues) ==
    [kind |-> "result", api_file |-> api_file, test_files |-> files, issues |-> issues,
     checks_performed |-> <<"Test alignment validation">>]
TestRaises(api_file) ==
    [kind |-> "raise", api_file |-> api_file, test_files |-> <<>>, issues |-> <<>>,
     checks_performed |-> <<>>]

\* CAMARAAPIValidator.validate_test_alignment.  With test files found, the
\* loop over them looks up self._validate_test_file; the class body ends
\* before `def _validate_test_file`, which is a module-level function, so the
\* lookup raises AttributeError (if _extract_operation_ids has not raised
\* before it) and no TestAlignmentResult is returned
validate_test_alignment(doc, dir) ==
    LET test_files_ == find_test_files(dir, doc.name)
    IN  IF doc.file.load # "parsed"
            THEN TestReturns(doc.name, <<>>, <<Issue("Critical", "API Loading")>>)
        ELSE IF doc.file.root # "map" \/ doc.file.info = "null" THEN TestRaises(doc.name)
        ELSE IF test_files_ = <<>>
            THEN TestReturns(doc.name, <<>>, <<Issue("Critical", "Test Files")>>)
        ELSE TestRaises(doc.name)

-----------------------------------------------------------------------------
(* Part C: the report.  summary.md is modelled by what generate_report      *)
(* decides to write to it: the totals, the issues listed under "Issues     *)
(* Requiring Attention" and the number of the "additional issues not       *)
(* shown" note (<<>>: no note).                                            *)

RECURSIVE Sum(_)
Sum(s) == IF s = <<>> THEN 0 ELSE Head(s) + Sum(Tail(s))

Min(a, b) == IF a <= b THEN a ELSE b

\* len([i for i in issues if i.severity == severity])
severity_count(issues, severity) == Count(issues, LAMBDA i : i.severity = severity)

\* generate_report, "Calculate summary statistics": the total of one
\* severity over the results, the consistency result and the test results
total_of(results_, consistency_result_, test_results_, severity) ==
    Sum([i \in 1..Len(results_) |-> severity_count(results_[i].issues, severity)])
    + (IF consistency_result_.kind = "result"
       THEN severity_count(consistency_result_.issues, severity) ELSE 0)
    + Sum([i \in 1..Len(test_results_) |->
              severity_count(test_results_[i].issues, severity)])

\* an entry of all_critical_issues / all_medium_issues: (source_name, issue)
Listed(source, issue) == [source |-> source, category |-> issue.category]
ListedOf(source, issues, severity) ==
    LET found == SelectSeq(issues, LAMBDA i : i.severity = severity)
    IN  [k \in 1..Len(found) |-> Listed(source, found[k])]

\* generate_report, "Collect all issues from all sources"
collect_issues(results_, consistency_result_, test_results_, severity) ==
    Flatten([i \in 1..Len(results_) |-> ListedOf("api", results_[i].issues, severity)])
    \o (IF consistency_result_.kind = "result"
        THEN ListedOf("Project-wide", consistency_result_.issues, severity) ELSE <<>>)
    \o Flatten([i \in 1..Len(test_results_) |->
                   ListedOf("Tests", test_results_[i].issues, severity)])

Summary(kind, critical, medium, low, critical_shown, medium_shown, note) ==
    [kind |-> kind, total_critical |-> critical, total_medium |-> medium,
     total_low |-> low, critical_shown |-> critical_shown,
     medium_shown |-> medium_shown, note |-> note]
NoSummary == Summary("none", 0, 0, 0, <<>>, <<>>, <<>>)
\* "No API definition files found"
EmptySummary == Summary("empty", 0, 0, 0, <<>>, <<>>, <<>>)
\* main's minimal fallback report, "API Review Failed"
FallbackSummary == Summary("fallback", 0, 0, 0, <<>>, <<>>, <<>>)

\* generate_report: the summary "with 25-item limit, prioritizing critical
\* then medium"
generate_report(results_, consistency_result_, test_results_) ==
    LET total_critical == total_of(results_, consistency_result_, test_results_, "Critical")
        total_medium == total_of(results_, consistency_result_, test_results_, "Medium")
        total_low == total_of(results_, consistency_result_, test_results_, "Low")
        all_critical_issues ==
            collect_issues(results_, consistency_result_, test_results_, "Critical")
        all_medium_issues ==
            collect_issues(results_, consistency_result_, test_results_, "Medium")
        critical_to_show == Min(Len(all_critical_issues), 20)
        remaining_slots == 25 - critical_to_show
        medium_to_show == Min(Len(all_medium_issues), remaining_slots)
        total_not_shown == (total_critical + total_medium) - 25
        attention == total_critical > 0 \/ total_medium > 0
    IN  IF results_ = <<>> THEN EmptySummary
        ELSE Summary("report", total_critical, total_medium, total_low,
                     IF attention THEN SubSeq(all_critical_issues, 1, critical_to_show)
                     ELSE <<>>,
                     IF attention THEN SubSeq(all_medium_issues, 1, medium_to_show)
                     ELSE <<>>,
                     IF attention /\ total_not_shown > 0 THEN <<total_not_shown>> ELSE <<>>)

\* what the file system does to the writes of a run
IOOutcomes == {"ok", "report fails", "all writes fail"}

\* main(), "Generate reports with enhanced data": generate_report, and the
\* fallback summary when it raised; a failing fallback is reported and passed
main_report(results_, consistency_result_, test_results_, io) ==
    IF io = "ok" THEN generate_report(results_, consistency_result_, test_results_)
    ELSE IF io = "report fails" THEN FallbackSummary
    ELSE NoSummary

\* main(), no API files: generate_report([]) inside try / except
main_empty_report(io) ==
    IF io = "ok" THEN generate_report(<<>>, None, <<>>) ELSE NoSummary

\* (mutant) the exit status tells whether a Critical issue was found
main_exit_judging(total_critical, total_medium, total_low) ==
    IF total_critical > 0 THEN 1 ELSE 0

\* main(): the totals are printed and the run ends with sys.exit(0), "we are
\* a reporter, not a judge"
main_exit(total_critical, total_medium, total_low) == 0

-----------------------------------------------------------------------------
(* Part C: inputs *)

\* file stems by position: "a", "a-a", "a-a-a", ... (each a prefix of the next)
DocName(i) == [j \in 1..i |-> "a"]
Named(docs) == [i \in 1..Len(docs) |-> [docs[i] EXCEPT !.name = DocName(i)]]

NoLicense == [kind |-> "absent", text |-> ""]
EmptyLicense == [kind |-> "empty", text |-> ""]
License(text) == [kind |-> "map", text |-> text]
NoStamp == [kind |-> "absent", text |-> ""]
StrStamp(text) == [kind |-> "str", text |-> text]
NumStamp(text) == [kind |-> "num", text |-> text]

DefaultApiDoc ==
    [name |-> <<>>, file |-> DefaultFile, defs |-> NoDefs, license |-> NoLicense,
     commonalities |-> NoStamp, operationIds |-> <<>>]

\* documents that fail to load, are empty or no mapping, or whose checks find
\* something or raise
RunFiles ==
    {[DefaultFile EXCEPT !.load = "unopenable"], [DefaultFile EXCEPT !.load = "malformed"],
     [DefaultFile EXCEPT !.root = "empty"], [DefaultFile EXCEPT !.root = "other"]}
    \cup {[DefaultFile EXCEPT !.title = t, !.found = g, !.raisesAt = k] :
            t \in {NoTitle, Str(<<"Sub", "scription">>)},
            g \in {<<>>, <<Issue("Critical", "Check"), Issue("Low", "Check")>>},
            k \in {0, 4, Len(AlwaysRunChecks) + 1}}
ValidationDocs == {[DefaultApiDoc EXCEPT !.file = f] : f \in RunFiles}

\* definitions of XCorrelator: a pattern, with or without a description
XCorrelatorDefs ==
    {Dict([type |-> Scalar("string"), pattern |-> Scalar(p)]) : p \in {"P1", "P2"}}
    \cup {Dict([type |-> Scalar("string"), pattern |-> Scalar(p), description |-> Scalar(t)]) :
            p \in {"P1", "P2"}, t \in {"D1", "D2"}}

\* definitions of Device: properties, one of which may be named `description`,
\* and a list of alternatives with descriptions of their own
DeviceProperties ==
    {Dict([phoneNumber |-> Dict([type |-> Scalar("string"), description |-> Scalar(t)])]) :
        t \in {"D1", "D2"}}
    \cup {Dict([phoneNumber |-> Dict([type |-> Scalar("string"), description |-> Scalar("D1")]),
                description |-> Dict([type |-> Scalar(y)])]) : y \in {"string", "integer"}}
DeviceDefs ==
    {Dict([type |-> Scalar("object"), properties |-> props,
           oneOf |-> List(<<Dict([description |-> Scalar(t),
                                  required |-> List(<<Scalar(r)>>)])>>)]) :
        props \in DeviceProperties, t \in {"D1", "D2"}, r \in {"phoneNumber", "ipv4Address"}}

SharedDefs ==
    {NoDefs}
    \cup {[name \in {"XCorrelator"} |-> x] : x \in XCorrelatorDefs}
    \cup {[name \in {"Device"} |-> v] : v \in DeviceDefs}
    \cup {[name \in {"XCorrelator", "Device"} |->
              IF name = "XCorrelator" THEN x ELSE v] :
            x \in {Dict([type |-> Scalar("string"), pattern |-> Scalar(p)]) : p \in {"P1", "P2"}},
            v \in {Dict([type |-> Scalar("object"), minProperties |-> Scalar(m)]) :
                     m \in {"1", "2"}}}

\* documents that vary in their shared schema definitions
DefsDocs ==
    {[DefaultApiDoc EXCEPT !.file.schemas = Mapping(<<>>), !.defs = d] : d \in SharedDefs}

\* documents that vary in license block or in version stamp, and one that
\* has neither
StampDocs ==
    {DefaultApiDoc}
    \cup {[DefaultApiDoc EXCEPT !.license = l, !.commonalities = StrStamp("0.6")] :
            l \in {NoLicense, EmptyLicense, License("Apache 2.0"), License("MIT")}}
    \cup {[DefaultApiDoc EXCEPT !.license = License("Apache 2.0"), !.commonalities = c] :
            c \in {NoStamp, StrStamp(""), StrStamp("0.5"), StrStamp("0.6"), NumStamp("0.6"),
                   NumStamp("0")}}

\* documents that vary in the shape of one section (or do not load), each
\* with a definition of XCorrelator and a license block
ShapeFiles ==
    LET base == [DefaultFile EXCEPT !.schemas = Mapping(<<>>)]
    IN  {base, [base EXCEPT !.load = "unopenable"], [base EXCEPT !.load = "malformed"],
         [base EXCEPT !.root = "empty"], [base EXCEPT !.info = "absent"],
         [base EXCEPT !.info = "null"], [base EXCEPT !.components = "absent"],
         [base EXCEPT !.components = "null"], [base EXCEPT !.schemas = Absent],
         [base EXCEPT !.schemas = Null]}
ShapeDocs ==
    {[DefaultApiDoc EXCEPT !.file = f,
                        !.defs = [name \in {"XCorrelator"} |->
                                     Dict([type |-> Scalar("string"), pattern |-> Scalar(p)])],
                        !.license = License("Apache 2.0")] :
        f \in ShapeFiles, p \in {"P1", "P2"}}

\* documents the test alignment check loads or fails on, with the
\* operations they define
OperationsPath == Mapping(<<[key |-> <<"/", "x">>, obj |-> PathObj(<<"op">>)]>>)
TestDocs ==
    {[DefaultApiDoc EXCEPT !.file = f] :
        f \in {[DefaultFile EXCEPT !.load = "unopenable"], [DefaultFile EXCEPT !.root = "empty"],
               [DefaultFile EXCEPT !.info = "null"], [DefaultFile EXCEPT !.paths = Null]}}
    \cup {[DefaultApiDoc EXCEPT !.file.paths = OperationsPath, !.operationIds = ids] :
            ids \in {<<"getX">>, <<"getX", "getY">>}}

\* a test file: its stem, as the parts between '-', and the operation ids
\* its `request "<id>"` references name, in order of appearance
TestFile(name, requests) == [name |-> name, requests |-> requests]
TestFiles ==
    {TestFile(n, r) :
        n \in {<<"a">>, <<"a", "getX">>, <<"b">>},
        r \in {<<"getX">>, <<"getZ", "getX", "getZ">>}}

NoTestDir == [exists |-> FALSE, files |-> <<>>]
TestDir(files) == [exists |-> TRUE, files |-> files]
TestDirs ==
    {NoTestDir}
    \cup {TestDir(q) : q \in DistinctBy(SeqsUpTo(TestFiles, MaxTests), LAMBDA t : t.name)}
SomeTestDirs == {NoTestDir, TestDir(<<>>), TestDir(<<TestFile(<<"a">>, <<"getX">>)>>)}

-----------------------------------------------------------------------------
(* Part C: the state machine.  Either main() runs over the documents       *)
(* (pc "validate", "consistency", "tests", "report", "done"), or the two   *)
(* project-wide methods of the validator are called directly (pc "api"); a *)
(* direct call leaves its outcome, a raised exception included, in         *)
(* consistency_result or test_results.                                     *)

RunInit ==
    /\ \/ /\ \/ \E q \in SeqsUpTo(ValidationDocs, MaxDocs), d \in SomeTestDirs :
                    api_files = Named(q) /\ test_dir = d
             \/ \E q \in SeqsUpTo(DefsDocs, MaxDocs) :
                    api_files = Named(q) /\ test_dir = NoTestDir
             \/ \E q \in SeqsUpTo(StampDocs, MaxStampDocs) :
                    api_files = Named(q) /\ test_dir = NoTestDir
             \/ \E q \in SeqsUpTo(ShapeDocs, MaxDocs) :
                    api_files = Named(q) /\ test_dir = NoTestDir
             \/ \E q \in SeqsUpTo(TestDocs, MaxDocs), d \in TestDirs :
                    api_files = Named(q) /\ test_dir = d
          /\ pc \in {"validate", "api"} /\ argc = 4
       \* too few arguments: the repository is never looked at
       \/ /\ argc \in 1..3 /\ pc = "validate"
          /\ api_files = <<>> /\ test_dir = NoTestDir
    /\ results = <<>> /\ consistency_result = None /\ test_results = <<>> /\ idx = 0
    /\ summary = NoSummary /\ exit_status = <<>>
    /\ mdoc = "none" /\ mcfg = "none" /\ errors = <<>> /\ warnings = <<>>
    /\ mresult = "none" /\ phases = <<>> /\ calls = 0
    /\ afile = "none" /\ cls = "none" /\ ares = "none"

\* validate_api_file(api_file), with the file_path the result is created on
DocumentResult(doc) ==
    LET result == validate_api_file(doc.file)
    IN  [file_path |-> doc.name, api_type |-> result.api_type, issues |-> result.issues,
         checks_performed |-> result.checks_performed,
         manual_checks_needed |-> result.manual_checks_needed]

\* (mutant) a document whose validation failed is reported and left out
main_validate_skip_failed(results_, doc) ==
    IF \E i \in 1..Len(DocumentResult(doc).issues) :
           DocumentResult(doc).issues[i].category = "Validation Error"
    THEN results_
    ELSE Append(results_, DocumentResult(doc))

\* main(): the body of the validation loop.  validate_api_file returns in
\* every case, so it is its result that is appended, never the error result
\* of the handler
main_validate(results_, doc) == Append(results_, DocumentResult(doc))

\* main(): fewer than three arguments, the usage text and sys.exit(0)
Usage ==
    /\ pc = "validate" /\ argc < 4
    /\ exit_status' = <<0>>
    /\ pc' = "done"
    /\ UNCHANGED <<api_files, test_dir, results, consistency_result, test_results, idx,
                   argc, summary>>
    /\ UNCHANGED metaVars /\ UNCHANGED apiVars

\* main(): no API definition files found, an empty report and sys.exit(0)
NoApiFiles ==
    /\ pc = "validate" /\ argc >= 4 /\ api_files = <<>>
    /\ \E io \in {"ok", "all writes fail"} : summary' = main_empty_report(io)
    /\ exit_status' = <<0>>
    /\ pc' = "done"
    /\ UNCHANGED <<api_files, test_dir, results, consistency_result, test_results, idx,
                   argc>>
    /\ UNCHANGED metaVars /\ UNCHANGED apiVars

\* main(): one iteration of `for api_file in api_files` (validation)
ValidateNext ==
    /\ pc = "validate" /\ argc >= 4 /\ idx < Len(api_files)
    /\ results' = main_validate(results, api_files[idx + 1])
    /\ idx' = IF idx + 1 = Len(api_files) THEN 0 ELSE idx + 1
    /\ pc' = IF idx + 1 = Len(api_files) THEN "consistency" ELSE "validate"
    /\ UNCHANGED <<api_files, test_dir, consistency_result, test_results,
                   argc, summary, exit_status>>
    /\ UNCHANGED metaVars /\ UNCHANGED apiVars

\* main(): the project consistency phase; an exception leaves None
ConsistencyPhase ==
    /\ pc = "consistency"
    /\ consistency_result' =
          IF Len(api_files) > 1 /\ validate_project_consistency(api_files).kind = "result"
          THEN validate_project_consistency(api_files)
          ELSE None
    /\ pc' = "tests"
    /\ UNCHANGED <<api_files, test_dir, results, test_results, idx,
                   argc, summary, exit_status>>
    /\ UNCHANGED metaVars /\ UNCHANGED apiVars

\* main(): no test directory
NoTestDirectory ==
    /\ pc = "tests" /\ ~test_dir.exists
    /\ pc' = "report"
    /\ UNCHANGED <<api_files, test_dir, results, consistency_result, test_results, idx,
                   argc, summary, exit_status>>
    /\ UNCHANGED metaVars /\ UNCHANGED apiVars

\* (mutant) the test alignment of a document follows its validation at once
TestAlignmentNext_early ==
    /\ pc = "validate" /\ test_dir.exists /\ 0 < idx /\ Len(test_results) < idx
    /\ test_results' =
          IF validate_test_alignment(api_files[idx], test_dir).kind = "result"
          THEN Append(test_results, validate_test_alignment(api_files[idx], test_dir))
          ELSE test_results
    /\ UNCHANGED <<api_files, test_dir, results, consistency_result, pc, idx,
                   argc, summary, exit_status>>
    /\ UNCHANGED metaVars /\ UNCHANGED apiVars

\* main(): one iteration of `for api_file in api_files` (test alignment); an
\* exception appends nothing
TestAlignmentNext ==
    /\ pc = "tests" /\ test_dir.exists /\ idx < Len(api_files)
    /\ test_results' =
          IF validate_test_alignment(api_files[idx + 1], test_dir).kind = "result"
          THEN Append(test_results, validate_test_alignment(api_files[idx + 1], test_dir))
          ELSE test_results
    /\ idx' = idx + 1
    /\ pc' = IF idx + 1 = Len(api_files) THEN "report" ELSE "tests"
    /\ UNCHANGED <<api_files, test_dir, results, consistency_result,
                   argc, summary, exit_status>>
    /\ UNCHANGED metaVars /\ UNCHANGED apiVars

\* main(): the reports are generated, the totals printed, and sys.exit
ReportAndExit ==
    /\ pc = "report"
    /\ \E io \in IOOutcomes :
          summary' = main_report(results, consistency_result, test_results, io)
    /\ exit_status' =
          <<main_exit(total_of(results, consistency_result, test_results, "Critical"),
                      total_of(results, consistency_result, test_results, "Medium"),
                      total_of(results, consistency_result, test_results, "Low"))>>
    /\ pc' = "done"
    /\ UNCHANGED <<api_files, test_dir, results, consistency_result, test_results, idx,
                   argc>>
    /\ UNCHANGED metaVars /\ UNCHANGED apiVars

\* validator.validate_project_consistency(api_files), called directly
ValidateProjectConsistency ==
    /\ pc = "api" /\ consistency_result = None
    /\ consistency_result' = validate_project_consistency(api_files)
    /\ UNCHANGED <<api_files, test_dir, results, test_results, pc, idx,
                   argc, summary, exit_status>>
    /\ UNCHANGED metaVars /\ UNCHANGED apiVars

\* validator.validate_test_alignment(api_file, test_dir), called directly
ValidateTestAlignment ==
    /\ pc = "api" /\ test_results = <<>>
    /\ \E i \in 1..Len(api_files) :
          test_results' = <<validate_test_alignment(api_files[i], test_dir)>>
    /\ UNCHANGED <<api_files, test_dir, results, consistency_result, pc, idx,
                   argc, summary, exit_status>>
    /\ UNCHANGED metaVars /\ UNCHANGED apiVars

RunNext ==
    \/ Usage
    \/ NoApiFiles
    \/ ValidateNext
    \/ ConsistencyPhase
    \/ NoTestDirectory
    \/ TestAlignmentNext
    \/ ReportAndExit
    \/ ValidateProjectConsistency
    \/ ValidateTestAlignment

SpecRun == RunInit /\ [][RunNext]_vars

-----------------------------------------------------------------------------
(* Part C: properties of the run and of the project-wide checks *)

InMain == pc \in {"validate", "consistency", "tests", "report", "done"}
ValidationOver == pc \in {"consistency", "tests", "report", "done"}

\* a check of the i-th document raised an unexpected error: the document
\* loaded as a mapping and one of the checks that ran is the one that raises
C11_CheckRaised(i) ==
    /\ api_files[i].file.load = "parsed" /\ api_files[i].file.root = "map"
    /\ api_files[i].file.raisesAt \in 1..Len(results[i].checks_performed)

\* C11: when a check raises an unexpected error on a document, the result of
\* that document carries exactly one "Validation Error" finding, Critical and
\* last of its findings, and the run still produces a result for every
\* document after it.
C11_ErrorContained ==
    /\ \A i \in 1..Len(results) :
          C11_CheckRaised(i) =>
              /\ Count(results[i].issues, LAMBDA x : x.category = "Validation Error") = 1
              /\ results[i].issues[Len(results[i].issues)] = Issue("Critical", "Validation Error")
    /\ ValidationOver => Len(results) = Len(api_files)
    /\ (InMain /\ ~ValidationOver) => Len(results) = idx

C11_Witness ==
    /\ pc = "done" /\ Len(api_files) = 2 /\ Len(results) = 2
    /\ C11_CheckRaised(1)
    /\ Len(results[1].checks_performed) = 4
    /\ results[2].checks_performed = AlwaysRunChecks

\* C12: every step of a run leaves one result per document gone through, in
\* input order, and the steps of the consistency and test alignment phases,
\* failing or not, leave the results list as it is.
C12_ResultsFrame ==
    [][/\ (pc \in {"consistency", "tests", "report"}) => results' = results
       /\ (pc = "validate" /\ api_files # <<>>) =>
             /\ Len(results') = Len(results) + 1
             /\ SubSeq(results', 1, Len(results)) = results
             /\ results'[Len(results')].file_path = api_files[Len(results')].name
       /\ (pc' \in {"consistency", "tests", "report", "done"} /\ api_files # <<>>) =>
             /\ Len(results') = Len(api_files)
             /\ \A i \in 1..Len(api_files) : results'[i].file_path = api_files[i].name]_vars

\* a run of two documents in which a validation, the consistency phase and a
\* test alignment failed
C12_Witness ==
    /\ pc = "done" /\ Len(api_files) = 2 /\ Len(results) = 2
    /\ results[1].issues = <<Issue("Critical", "Validation Error")>>
    /\ results[2].checks_performed = AlwaysRunChecks
    /\ consistency_result = None
    /\ test_dir.exists /\ Len(test_results) = 1

\* the document loads and its components.schemas defines the name
C14_Defines(doc, name) ==
    /\ doc.file.load = "parsed" /\ doc.file.root = "map"
    /\ doc.file.components = "map" /\ doc.file.schemas.kind = "map"
    /\ name \in DOMAIN doc.defs
C14_Pattern(doc) == doc.defs["XCorrelator"].items.pattern.value

C15_NoOpBelowTwo ==
    /\ (pc = "api" /\ consistency_result.kind # "none" /\ Len(api_files) < 2) =>
          consistency_result = Returns(<<>>, <<"Project-wide shared schema validation">>)
    /\ (InMain /\ Len(api_files) < 2) => consistency_result = None

\* a direct call on one document that does not even load
C15_Witness ==
    /\ pc = "api" /\ Len(api_files) = 1 /\ api_files[1].file.load = "unopenable"
    /\ consistency_result.kind = "result" /\ consistency_result.issues = <<>>

\* a definition without its description texts: the `description` keys whose
\* value is a text, at any depth
RECURSIVE C16_WithoutText(_)
C16_WithoutText(schema) ==
    IF schema.kind = "dict"
        THEN Dict([key \in {k \in DOMAIN schema.items :
                              ~(k = "description" /\ schema.items[k].kind = "scalar")} |->
                      C16_WithoutText(schema.items[key])])
    ELSE IF schema.kind = "list"
        THEN List([i \in DOMAIN schema.elems |-> C16_WithoutText(schema.elems[i])])
    ELSE schema

C16_FirstDefining(name) ==
    CHOOSE i \in 1..Len(api_files) :
        /\ C14_Defines(api_files[i], name)
        /\ \A j \in 1..(i - 1) : ~C14_Defines(api_files[j], name)

\* C16: when validate_project_consistency returns, for each shared schema
\* name and each document defining it after the first one that does, the
\* result has a Critical finding naming the two documents exactly when their
\* definitions differ in something other than description text.
C16_DescriptionOnly ==
    consistency_result.kind = "result" =>
        \A name \in {"XCorrelator", "Device"} :
            \A j \in 1..Len(api_files) :
                (/\ C14_Defines(api_files[j], name)
                 /\ \E i \in 1..(j - 1) : C14_Defines(api_files[i], name)) =>
                    LET first == api_files[C16_FirstDefining(name)]
                    IN  (\E k \in 1..Len(consistency_result.issues) :
                            consistency_result.issues[k] =
                                ConsistencyIssue("Critical", "Shared Schema Consistency", name,
                                                 <<first.name, api_files[j].name>>))
                        <=> ~py_equal(C16_WithoutText(first.defs[name]),
                                      C16_WithoutText(api_files[j].defs[name]))

\* the findings of one category that name the pair <<reference, other>>
C17_Named(category, reference, other) ==
    Count(consistency_result.issues,
          LAMBDA x : x.category = category /\ x.location = <<reference.name, other.name>>)
C17_About(category) ==
    Count(consistency_result.issues, LAMBDA x : x.category = category)
C17_Loaded == {i \in 1..Len(api_files) : api_files[i].file.load = "parsed"}
C17_Differing(reference, field(_)) ==
    {i \in C17_Loaded \ {reference} : field(api_files[i]) # field(api_files[reference])}

C17_Holders(has(_)) == {i \in C17_Loaded : has(api_files[i])}
C17_First(S) == CHOOSE i \in S : \A j \in S : i <= j
C17_Diverging(has(_), field(_)) ==
    IF Cardinality(C17_Holders(has)) < 2 THEN {}
    ELSE {i \in C17_Holders(has) :
            field(api_files[i]).text # field(api_files[C17_First(C17_Holders(has))]).text}

C18_Called == pc = "api" /\ test_results # <<>>
C18_Doc ==
    api_files[CHOOSE i \in 1..Len(api_files) : api_files[i].name = test_results[1].api_file]
\* the document parses to a mapping whose `info` is not null
C18_WellFormed(doc) ==
    doc.file.load = "parsed" /\ doc.file.root = "map" /\ doc.file.info # "null"
\* the files S.feature and S-*.feature of the test directory, S the stem
C18_Matching(doc) ==
    {k \in 1..Len(test_dir.files) :
        \/ test_dir.files[k].name = doc.name
        \/ /\ Len(test_dir.files[k].name) > Len(doc.name)
           /\ SubSeq(test_dir.files[k].name, 1, Len(doc.name)) = doc.name}

\* C18: validate_test_alignment on a document with stem S returns a result;
\* without S.feature and S-*.feature files its test_files is empty and it has
\* exactly one finding, Critical; with such files it has no "Test Files"
\* finding and test_files lists every one of them.
C18_TestFiles ==
    (C18_Called /\ C18_WellFormed(C18_Doc)) =>
        /\ test_results[1].kind = "result"
        /\ IF C18_Matching(C18_Doc) = {}
           THEN /\ test_results[1].test_files = <<>>
                /\ Len(test_results[1].issues) = 1
                /\ test_results[1].issues[1].severity = "Critical"
           ELSE /\ \A k \in 1..Len(test_results[1].issues) :
                      test_results[1].issues[k].category # "Test Files"
                /\ Range(test_results[1].test_files) =
                      {test_dir.files[k] : k \in C18_Matching(C18_Doc)}

\* the references of the located test files to operations the document does
\* not define, one per file and distinct operation id
C19_Unknown(doc) ==
    {<<k, id>> \in C18_Matching(doc) \X {"getX", "getY", "getZ"} :
        id \in Range(test_dir.files[k].requests) /\ id \notin Range(doc.operationIds)}

\* C19: when test files are located for a document, validate_test_alignment
\* returns a result with one Critical "Test Operation IDs" finding for each
\* distinct reference of each test file to an operation id the document does
\* not define, and none for the references it defines.
C19_UnknownOperations ==
    (/\ C18_Called /\ C18_WellFormed(C18_Doc) /\ C18_Doc.file.paths.kind # "null"
     /\ C18_Matching(C18_Doc) # {}) =>
        /\ test_results[1].kind = "result"
        /\ Count(test_results[1].issues,
                 LAMBDA x : x.category = "Test Operation IDs" /\ x.severity = "Critical")
              = Cardinality(C19_Unknown(C18_Doc))

\* C20: at the end of a run over well-formed documents, test_results holds
\* exactly one TestAlignmentResult per document, in input order, when the
\* test directory exists, and is empty when it does not.
C20_OnePerDocument ==
    (/\ pc = "done" /\ api_files # <<>>
     /\ \A i \in 1..Len(api_files) :
           C18_WellFormed(api_files[i]) /\ api_files[i].file.paths.kind # "null") =>
        IF test_dir.exists
        THEN /\ Len(test_results) = Len(api_files)
             /\ \A i \in 1..Len(api_files) : test_results[i].api_file = api_files[i].name
        ELSE test_results = <<>>

\* C21: every run of main that has ended has ended with exit status 0, and
\* a run that has not ended has no exit status: too few arguments, no API
\* files, failed validations, a failed report and any number of Critical
\* findings all end in sys.exit(0).
C21_ExitZero ==
    InMain =>
        /\ pc = "done" <=> exit_status # <<>>
        /\ exit_status \in {<<>>, <<0>>}

\* a run that ended with Critical findings and no report written at all
C21_Witness ==
    /\ pc = "done" /\ exit_status = <<0>> /\ argc >= 4
    /\ total_of(results, consistency_result, test_results, "Critical") > 0
    /\ \E i \in 1..Len(results) :
          results[i].issues = <<Issue("Critical", "Validation Error")>>
    /\ summary = NoSummary

\* a run with too few arguments
C21_Usage == pc = "done" /\ argc < 4 /\ exit_status = <<0>>

\* C26: in a run of main, a step that adds a result adds the result of the
\* next document in input order, before any consistency or test alignment
\* result exists; the consistency result and the test results change only in
\* their own phase, which is entered with one result per document; and the
\* phases follow each other as validation, consistency, test alignment,
\* report.
C26_PhaseOrder ==
    [][InMain =>
          /\ results' # results =>
                /\ pc = "validate" /\ consistency_result = None /\ test_results = <<>>
                /\ results' = Append(results, results'[Len(results')])
                /\ results'[Len(results')].file_path = api_files[Len(results')].name
          /\ consistency_result' # consistency_result =>
                /\ pc = "consistency" /\ Len(results) = Len(api_files)
                /\ test_results = <<>>
          /\ test_results' # test_results =>
                /\ pc = "tests" /\ Len(results) = Len(api_files)
                /\ results' = results /\ consistency_result' = consistency_result
          /\ <<pc, pc'>> \in {<<"validate", "validate">>, <<"validate", "consistency">>,
                              <<"validate", "done">>, <<"consistency", "tests">>,
                              <<"tests", "tests">>, <<"tests", "report">>,
                              <<"report", "done">>}]_vars

\* a run of two documents that went through validation, a consistency check
\* that returned and two test alignment checks that returned
C26_Witness ==
    /\ pc = "done" /\ Len(api_files) = 2 /\ Len(results) = 2
    /\ results[1].file_path = api_files[1].name /\ results[2].file_path = api_files[2].name
    /\ consistency_result.kind = "result"
    /\ Len(test_results) = 2

-----------------------------------------------------------------------------
(* Part C: generate_report called on results with many issues.  The       *)
(* Critical issues are those of the one document; the Medium issues are    *)
(* those of the document, of the consistency result or of a test result.   *)

Issues(n, severity) == [i \in 1..n |-> Issue(severity, "Check")]

ReportedDocument(issues) ==
    [file_path |-> DocName(1), api_type |-> REGULAR, issues |-> issues,
     checks_performed |-> AlwaysRunChecks, manual_checks_needed |-> REGULAR]

ReportInit ==
    /\ \E nc \in 0..MaxCritical, nm \in 0..MaxMedium,
          source \in {"api", "Project-wide", "Tests"} :
          /\ results =
                <<ReportedDocument(Issues(nc, "Critical")
                                   \o (IF source = "api" THEN Issues(nm, "Medium") ELSE <<>>)
                                   \o Issues(1, "Low"))>>
          /\ consistency_result =
                IF source = "Project-wide"
                THEN Returns(Issues(nm, "Medium"), <<"Project-wide consistency">>)
                ELSE None
          /\ test_results =
                IF source = "Tests"
                THEN <<TestReturns(DocName(1), <<>>, Issues(nm, "Medium"))>>
                ELSE <<>>
    /\ pc = "report call" /\ summary = NoSummary
    /\ api_files = <<>> /\ test_dir = NoTestDir /\ idx = 0 /\ argc = 0
    /\ exit_status = <<>>
    /\ mdoc = "none" /\ mcfg = "none" /\ errors = <<>> /\ warnings = <<>>
    /\ mresult = "none" /\ phases = <<>> /\ calls = 0
    /\ afile = "none" /\ cls = "none" /\ ares = "none"

\* generate_report(results, output_dir, repo_name, pr_number,
\*                 consistency_result, test_results), called directly
GenerateReport ==
    /\ pc = "report call"
    /\ summary' = generate_report(results, consistency_result, test_results)
    /\ pc' = "reported"
    /\ UNCHANGED <<api_files, test_dir, results, consistency_result, test_results, idx,
                   argc, exit_status>>
    /\ UNCHANGED metaVars /\ UNCHANGED apiVars

ReportNext == GenerateReport

SpecReport == ReportInit /\ [][ReportNext]_vars

\* the Critical and Medium issues handed to generate_report
C30_Handed(severity) ==
    Count(results[1].issues, LAMBDA i : i.severity = severity)
    + Count(consistency_result.issues, LAMBDA i : i.severity = severity)
    + (IF test_results = <<>> THEN 0
       ELSE Count(test_results[1].issues, LAMBDA i : i.severity = severity))

C30_Listed == Len(summary.critical_shown) + Len(summary.medium_shown)

C30_Hidden == C30_Handed("Critical") + C30_Handed("Medium") - C30_Listed

\* C30: the summary lists at most 20 Critical issues and at most 25 issues
\* in all; the number of the "additional issues not shown" note, when the
\* note is written, is the number of Critical and Medium issues that were
\* not listed; and the note is written whenever an issue was not listed.
C30_NoteCountsHidden ==
    summary.kind = "report" =>
        /\ Len(summary.critical_shown) <= 20
        /\ C30_Listed <= 25
        /\ summary.note # <<>> => summary.note = <<C30_Hidden>>
        /\ C30_Hidden > 0 => summary.note # <<>>

=============================================================================
